---- MODULE Spec2Model ----
(***************************************************************************)
(* The repository's asynchronous snippets, run on one JavaScript event     *)
(* loop: promises with their reaction lists, the job queue that resumes    *)
(* waiters, the timer queue behind setTimeout, the console, and the        *)
(* combinators Promise.all / Promise.allSettled / Promise.race.            *)
(*                                                                         *)
(* A machine state is handled as one record m, so that a handler, which    *)
(* makes several calls in a row, is the composition of the operators that  *)
(* model those calls; every action commits the record it computed.         *)
(***************************************************************************)
EXTENDS Integers, Sequences, FiniteSets, TLC

VARIABLES
    prog,       \* which snippet runs on the event loop
    promises,   \* sequence of [state, value, reactions]; a promise's id is its index
    calls,      \* history: per promise, how often its resolve/reject was called
    first,      \* history: per promise, the outcome its first resolve/reject call gave
    jobs,       \* the job queue: reactions of settled promises waiting to run
    timers,     \* callbacks given to setTimeout, soonest first
    clock,      \* milliseconds since the script started
    agg,        \* per combinator promise, its values array and remaining count
    log,        \* the console: the values logged so far
    ran,        \* history: the reactions run so far, as [src, seq]
    order,      \* history: the promises' ids in the order they settled
    nreg,       \* history: how many reactions were registered so far
    net,        \* the requests in flight, as [p, url]: p is the fetch's promise
    requests,   \* history: the urls requested so far, in order
    gen,        \* the generator object: where it is suspended, and its locals
    ret,        \* what the last call of next() returned
    cache,      \* memoize's cache object: its own properties, by property key
    produced,   \* history: the arguments the memoized function was really called with
    tasks,      \* history: per call of the memoized function, what it found and returned
    success,    \* the flag that fetchData's timer callback tests
    life,       \* history: per task (call of an async function, or generator), its promise,
                \* its states, the promises it awaited and what each resumption gave it
    dueAt,      \* history: per promise, when the timer that settles it is due; 0 if none
    closures,   \* the private variable of each closure made, as [kind, id, n]
    ops         \* history: the calls made on closures, as [obj, op, arg, out]

vars == <<prog, promises, calls, first, jobs, timers, clock, agg, log, ran, order, nreg,
          net, requests, gen, ret, cache, produced, tasks,
          success, life, dueAt, closures, ops>>

----------------------------------------------------------------------------
(* Bounds and inputs *)

\* How many promises a combinator is given.
NumMembers == 3

\* The largest number square is called with.
MaxArg == 4

\* The most user ids a list of ids holds.
NumIds == 3

\* How many closures of a kind a script makes.
NumInstances == 2

\* How many calls a run makes on the closures it made; the counter snippet makes
\* four.
MaxCalls == 4

\* How many calls of getUserData, or of the memoized function, a run makes.
MaxTasks == 3

\* The delays a member's timer may have, in milliseconds.
Delays == {1000, 2000, 3000}

----------------------------------------------------------------------------
(* JavaScript values *)

Undefined == [k |-> "undefined", s |-> "", n |-> 0, a |-> <<>>]

Str(x) == [k |-> "string", s |-> x, n |-> 0, a |-> <<>>]

Arr(xs) == [k |-> "array", s |-> "", n |-> 0, a |-> xs]

\* An element of Promise.allSettled's result: {status, value} or {status, reason}.
Outcome(status, v) == [k |-> "object", s |-> status, n |-> 0, a |-> <<v>>]

Num(i) == [k |-> "number", s |-> "", n |-> i, a |-> <<>>]

\* A reference to the promise with id p.
PromiseRef(p) == [k |-> "promise", s |-> "", n |-> p, a |-> <<>>]

\* What next() returns: {value, done}.
IterResult(v, done) ==
    [k |-> "object", s |-> IF done THEN "done" ELSE "not done", n |-> 0, a |-> <<v>>]

\* The user object the user request answers with, and its id property.
User(id) == [k |-> "object", s |-> "user", n |-> id, a |-> <<>>]

\* v.id; reading a property of undefined throws a TypeError.
IdOf(v) == IF v.k = "object" /\ v.s = "user" THEN Num(v.n) ELSE Undefined

TypeError == [k |-> "error", s |-> "TypeError", n |-> 0, a |-> <<>>]

\* The object a user fetch resolves with; each fetch makes an object of its own.
UserData(nth) == [k |-> "object", s |-> "Tech-Coder_", n |-> nth, a |-> <<>>]

\* A method that every object inherits from Object.prototype.
InheritedMethod(name) == [k |-> "function", s |-> name, n |-> 0, a |-> <<>>]

\* Not a value: nothing was observed yet.
Nothing == [k |-> "nothing", s |-> "", n |-> 0, a |-> <<>>]

\* One console call with several arguments, printed as one line.
Line(args) == [k |-> "line", s |-> "", n |-> 0, a |-> args]

\* What the readme's fetchData resolves with, and what it rejects with; every
\* member of a batch is a call of that one function.
MemberValue == Str("Data fetched successfully!")

MemberReason == Str("Failed to fetch data!")

\* The object that an object literal inherits from.
ObjectPrototype == [k |-> "object", s |-> "Object.prototype", n |-> 0, a |-> <<>>]

NoArg == [t |-> 0, i |-> 0]

----------------------------------------------------------------------------
(* The machine *)

M == [prog |-> prog, promises |-> promises, calls |-> calls, first |-> first,
      jobs |-> jobs, timers |-> timers, clock |-> clock, agg |-> agg,
      log |-> log, ran |-> ran, order |-> order, nreg |-> nreg,
      net |-> net, requests |-> requests, gen |-> gen, ret |-> ret,
      cache |-> cache, produced |-> produced,
      tasks |-> tasks, success |-> success, life |-> life,
      dueAt |-> dueAt, closures |-> closures, ops |-> ops]

Commit(m) ==
    /\ prog' = m.prog
    /\ promises' = m.promises
    /\ calls' = m.calls
    /\ first' = m.first
    /\ jobs' = m.jobs
    /\ timers' = m.timers
    /\ clock' = m.clock
    /\ agg' = m.agg
    /\ log' = m.log
    /\ ran' = m.ran
    /\ order' = m.order
    /\ nreg' = m.nreg
    /\ net' = m.net
    /\ requests' = m.requests
    /\ gen' = m.gen
    /\ ret' = m.ret
    /\ cache' = m.cache
    /\ produced' = m.produced
    /\ tasks' = m.tasks
    /\ success' = m.success
    /\ life' = m.life
    /\ dueAt' = m.dueAt
    /\ closures' = m.closures
    /\ ops' = m.ops

\* No generator object has been made.
NoGenerator == [pc |-> "none", user |-> Undefined, posts |-> Undefined]

\* The state the main script leaves behind when it returns to the event loop.
Start(m) ==
    /\ prog = m.prog
    /\ promises = m.promises
    /\ calls = m.calls
    /\ first = m.first
    /\ jobs = m.jobs
    /\ timers = m.timers
    /\ clock = m.clock
    /\ agg = m.agg
    /\ log = m.log
    /\ ran = m.ran
    /\ order = m.order
    /\ nreg = m.nreg
    /\ net = m.net
    /\ requests = m.requests
    /\ gen = m.gen
    /\ ret = m.ret
    /\ cache = m.cache
    /\ produced = m.produced
    /\ tasks = m.tasks
    /\ success = m.success
    /\ life = m.life
    /\ dueAt = m.dueAt
    /\ closures = m.closures
    /\ ops = m.ops

Empty(p) == [prog |-> p, promises |-> <<>>, calls |-> <<>>, first |-> <<>>,
             jobs |-> <<>>, timers |-> <<>>, clock |-> 0, agg |-> <<>>,
             log |-> <<>>, ran |-> <<>>, order |-> <<>>, nreg |-> 0,
             net |-> <<>>, requests |-> <<>>, gen |-> NoGenerator, ret |-> Undefined,
             cache |-> <<>>, produced |-> <<>>,
             tasks |-> <<>>, success |-> TRUE, life |-> <<>>,
             dueAt |-> <<>>, closures |-> <<>>, ops |-> <<>>]

NoOutcome == [state |-> "pending", value |-> Undefined]

\* new Promise(...): a pending promise with no waiters; its id is Len(promises).
NewPromise(m) ==
    [m EXCEPT !.promises = Append(@, [state |-> "pending", value |-> Undefined,
                                      reactions |-> <<>>]),
              !.calls = Append(@, 0),
              !.first = Append(@, NoOutcome),
              !.dueAt = Append(@, 0)]

\* The job that runs reaction r of promise src, settled as st with v.
Job(r, st, v, src) ==
    [h |-> IF st = "fulfilled" THEN r.onF ELSE r.onR,
     arg |-> r.arg, d |-> r.d, v |-> v, src |-> src, seq |-> r.seq]

\* The jobs of a settling promise's reactions, in the order they registered.
ReactionJobs(rs, st, v, src) == [i \in 1..Len(rs) |-> Job(rs[i], st, v, src)]

\* History only: a call of p's resolve or reject function is counted, and the
\* first one's outcome and its place among the settlements are kept.
Noted(m, p, st, v) ==
    [m EXCEPT !.calls[p] = @ + 1,
              !.first[p] = IF m.calls[p] = 0 THEN [state |-> st, value |-> v] ELSE @,
              !.order = IF m.calls[p] = 0 THEN Append(@, p) ELSE @]

\* A resolve or reject that does not look at the promise's state: the last call wins.
SettleAgain(m, p, st, v) ==
    IF p = 0 THEN m
    ELSE [Noted(m, p, st, v) EXCEPT
              !.promises[p] = [state |-> st, value |-> v, reactions |-> <<>>],
              !.jobs = @ \o ReactionJobs(m.promises[p].reactions, st, v, p)]

\* A settlement whose waiters go ahead of the jobs already queued.
SettleAhead(m, p, st, v) ==
    IF p = 0 THEN m
    ELSE IF m.promises[p].state # "pending"
    THEN Noted(m, p, st, v)
    ELSE [Noted(m, p, st, v) EXCEPT
              !.promises[p] = [state |-> st, value |-> v, reactions |-> <<>>],
              !.jobs = ReactionJobs(m.promises[p].reactions, st, v, p) \o @]

\* A call of promise p's resolve (st = "fulfilled") or reject (st = "rejected")
\* function with v. Only the first call settles p and schedules its waiters;
\* a later call returns without any effect. p = 0: there is no promise to settle.
Settle(m, p, st, v) ==
    IF p = 0 THEN m
    ELSE IF m.promises[p].state # "pending"
    THEN Noted(m, p, st, v)
    ELSE [Noted(m, p, st, v) EXCEPT
              !.promises[p] = [state |-> st, value |-> v, reactions |-> <<>>],
              !.jobs = @ \o ReactionJobs(m.promises[p].reactions, st, v, p)]

\* A then() that puts the reaction in the list whatever the promise's state.
RegisterAlwaysWaits(m, p, onF, onR, arg, d) ==
    [m EXCEPT !.nreg = @ + 1,
              !.promises[p].reactions =
                  Append(@, [onF |-> onF, onR |-> onR, arg |-> arg, d |-> d,
                             seq |-> m.nreg + 1])]

\* PerformPromiseThen: a pending promise keeps the reaction in its list; a settled
\* one schedules it at once, behind the jobs already queued.
Register(m, p, onF, onR, arg, d) ==
    LET r == [onF |-> onF, onR |-> onR, arg |-> arg, d |-> d, seq |-> m.nreg + 1]
        m1 == [m EXCEPT !.nreg = @ + 1]
    IN  IF m.promises[p].state = "pending"
        THEN [m1 EXCEPT !.promises[p].reactions = Append(@, r)]
        ELSE [m1 EXCEPT !.jobs = Append(@, Job(r, m.promises[p].state,
                                               m.promises[p].value, p))]

\* p.then(onF, onR): returns a new promise (its id is Len(promises) afterwards),
\* settled by what the handler that runs returns or throws.
Then(m, p, onF, onR) ==
    LET m1 == NewPromise(m)
    IN  Register(m1, p, onF, onR, NoArg, Len(m1.promises))

\* p.catch(onR) is p.then(undefined, onR).
Catch(m, p, onR) == Then(m, p, "identity", onR)

\* A resolve call with v. A promise as v is not stored: a job is queued that will
\* call v.then(resolve, reject), so that d takes v's outcome when v settles.
ResolveWith(m, d, v) ==
    IF d = 0 THEN m
    ELSE IF v.k = "promise"
    THEN [m EXCEPT !.jobs = Append(@, [h |-> "thenableJob", arg |-> [t |-> d, i |-> v.n],
                                       d |-> 0, v |-> Undefined, src |-> 0, seq |-> 0])]
    ELSE Settle(m, d, "fulfilled", v)

\* fetch(url).then(res => res.json()): a request goes out; the promise is settled
\* when the answer has come in and has been parsed.
Fetch(m, url) ==
    LET m1 == NewPromise(m)
    IN  [m1 EXCEPT !.net = Append(@, [p |-> Len(m1.promises), url |-> url]),
                   !.requests = Append(@, url)]

\* Where a timer due at `due` goes: behind every timer due no later.
RECURSIVE TimerSlot(_, _, _)
TimerSlot(ts, due, i) ==
    IF i > Len(ts) THEN i
    ELSE IF ts[i].due > due THEN i
    ELSE TimerSlot(ts, due, i + 1)

\* A setTimeout that calls a callback of delay 0 on the spot.
SetTimeoutSayingEager(m, delay, says, p, ok, v) ==
    IF delay = 0
    THEN Settle([m EXCEPT !.log = Append(@, says)], p,
                IF ok THEN "fulfilled" ELSE "rejected", v)
    ELSE LET t == [due |-> m.clock + delay, p |-> p, ok |-> ok, v |-> v, says |-> says]
             k == TimerSlot(m.timers, t.due, 1)
             s == [m EXCEPT !.timers = SubSeq(@, 1, k - 1) \o <<t>> \o SubSeq(@, k, Len(@))]
         IN  IF p = 0 THEN s ELSE [s EXCEPT !.dueAt[p] = t.due]

\* setTimeout(cb, delay), cb being a callback that logs `says` and then settles
\* promise p, if there is one (p # 0).
SetTimeoutSaying(m, delay, says, p, ok, v) ==
    LET t == [due |-> m.clock + delay, p |-> p, ok |-> ok, v |-> v, says |-> says]
        k == TimerSlot(m.timers, t.due, 1)
        s == [m EXCEPT !.timers = SubSeq(@, 1, k - 1) \o <<t>> \o SubSeq(@, k, Len(@))]
    IN  IF p = 0 THEN s ELSE [s EXCEPT !.dueAt[p] = t.due]

\* setTimeout(cb, delay), cb being the callback that settles promise p.
SetTimeout(m, delay, p, ok, v) ==
    LET t == [due |-> m.clock + delay, p |-> p, ok |-> ok, v |-> v, says |-> Nothing]
        k == TimerSlot(m.timers, t.due, 1)
    IN  [m EXCEPT !.timers = SubSeq(@, 1, k - 1) \o <<t>> \o SubSeq(@, k, Len(@)),
                  !.dueAt[p] = t.due]

----------------------------------------------------------------------------
(* The combinators *)

\* The combinator's reactions on its members, registered in the members' order.
\* The promise that each internal then() returns is never looked at.
RECURSIVE RegisterEach(_, _, _, _, _, _)
RegisterEach(m, ms, i, onF, onR, target) ==
    IF i > Len(ms) THEN m
    ELSE RegisterEach(Register(m, ms[i], onF, onR, [t |-> target, i |-> i], 0),
                      ms, i + 1, onF, onR, target)

Holes(n) == [i \in 1..n |-> Undefined]

\* A combinator's promise with its values array and its count of members left.
NewAggregate(m, n) ==
    LET m1 == NewPromise(m)
    IN  [m1 EXCEPT !.agg = (Len(m1.promises) :> [values |-> Holes(n), remaining |-> n]) @@ @]

\* Promise.all(ms): the new promise's id is Len(promises) afterwards.
PromiseAll(m, ms) ==
    LET m1 == NewAggregate(m, Len(ms))
        A == Len(m1.promises)
    IN  IF Len(ms) = 0 THEN Settle(m1, A, "fulfilled", Arr(<<>>))
        ELSE RegisterEach(m1, ms, 1, "allResolveElement", "allReject", A)

\* Promise.allSettled(ms).
PromiseAllSettled(m, ms) ==
    LET m1 == NewAggregate(m, Len(ms))
        S == Len(m1.promises)
    IN  IF Len(ms) = 0 THEN Settle(m1, S, "fulfilled", Arr(<<>>))
        ELSE RegisterEach(m1, ms, 1, "settledFulfilled", "settledRejected", S)

\* Promise.race(ms).
PromiseRace(m, ms) ==
    LET m1 == NewPromise(m)
    IN  RegisterEach(m1, ms, 1, "raceResolve", "raceReject", Len(m1.promises))

\* A Promise.all that collects the values as they arrive.
AllResolveElementInArrivalOrder(m, j) ==
    LET A == j.arg.t
        n == Len(m.agg[A].values)
        vs == [m.agg[A].values EXCEPT ![n - m.agg[A].remaining + 1] = j.v]
        left == m.agg[A].remaining - 1
        m1 == [m EXCEPT !.agg[A] = [values |-> vs, remaining |-> left]]
    IN  IF left = 0 THEN Settle(m1, A, "fulfilled", Arr(vs)) ELSE m1

\* Promise.all's resolve-element function of member j.arg.i: store the value at the
\* member's index; the last value to arrive fulfils the combinator's promise.
AllResolveElement(m, j) ==
    LET A == j.arg.t
        vs == [m.agg[A].values EXCEPT ![j.arg.i] = j.v]
        left == m.agg[A].remaining - 1
        m1 == [m EXCEPT !.agg[A] = [values |-> vs, remaining |-> left]]
    IN  IF left = 0 THEN Settle(m1, A, "fulfilled", Arr(vs)) ELSE m1

\* A Promise.all that sits a member's rejection out.
AllReject(m, j) == Settle(m, j.arg.t, "rejected", j.v)

\* An allSettled that, like Promise.all, gives up at a member's rejection.
SettledElementFailFast(m, j, status) ==
    IF status = "rejected" THEN Settle(m, j.arg.t, "rejected", j.v)
    ELSE LET S == j.arg.t
             vs == [m.agg[S].values EXCEPT ![j.arg.i] = Outcome(status, j.v)]
             left == m.agg[S].remaining - 1
             m1 == [m EXCEPT !.agg[S] = [values |-> vs, remaining |-> left]]
         IN  IF left = 0 THEN Settle(m1, S, "fulfilled", Arr(vs)) ELSE m1

\* Promise.allSettled's element functions: store the member's outcome at its index.
SettledElement(m, j, status) ==
    LET S == j.arg.t
        vs == [m.agg[S].values EXCEPT ![j.arg.i] = Outcome(status, j.v)]
        left == m.agg[S].remaining - 1
        m1 == [m EXCEPT !.agg[S] = [values |-> vs, remaining |-> left]]
    IN  IF left = 0 THEN Settle(m1, S, "fulfilled", Arr(vs)) ELSE m1

\* Promise.race: every member calls the race promise's own resolve or reject.
RaceSettle(m, j, st) == Settle(m, j.arg.t, st, j.v)

----------------------------------------------------------------------------
(* The snippets *)

\* promise<i> = fetchData(): a promise that a timer settles. Whether the fetch
\* succeeds, and after how long, are the run's inputs.
FetchMember(m, delay, ok) ==
    LET m1 == NewPromise(m)
    IN  SetTimeout(m1, delay, Len(m1.promises), ok,
                   IF ok THEN MemberValue ELSE MemberReason)

RECURSIVE FetchMembers(_, _, _, _)
FetchMembers(m, i, delays, oks) ==
    IF i > Len(delays) THEN m
    ELSE FetchMembers(FetchMember(m, delays[i], oks[i]), i + 1, delays, oks)

Members == [i \in 1..NumMembers |-> i]
AllId == NumMembers + 1
SettledId == NumMembers + 4
RaceId == NumMembers + 6

\* promise1..promiseN = fetchData(); then the three combinators over the same
\* promises, each with the handlers the readme chains on it.
BatchScript(delays, oks) ==
    LET m0 == FetchMembers(Empty("batch"), 1, delays, oks)
        a0 == PromiseAll(m0, Members)
        a1 == Then(a0, AllId, "logValue", "thrower")
        a2 == Catch(a1, AllId + 1, "logValue")
        s0 == PromiseAllSettled(a2, Members)
        s1 == Then(s0, SettledId, "logValue", "thrower")
        r0 == PromiseRace(s1, Members)
        r1 == Then(r0, RaceId, "logValue", "thrower")
    IN  Catch(r1, RaceId + 1, "logValue")

\* console.log(x) / console.error(x)
ConsoleLog(m, v) == [m EXCEPT !.log = Append(@, v)]

\* What script.js's fetchData settles with; the strings' leading emoji are written
\* as their code points.
DataFetched == Str("U+2705 Data fetched successfully")

ErrorFetching == Str("U+26D4 Error fetching data")

\* script.js's fetchData(): a promise that a timer settles after three seconds,
\* resolved or rejected as the success flag says.
FetchData(m) ==
    LET m1 == NewPromise(m)
    IN  SetTimeout(m1, 3000, Len(m1.promises), m.success,
                   IF m.success THEN DataFetched ELSE ErrorFetching)

\* The promises of script.js, in the order the chain creates them.
ChainFetchId == 1
ChainFirstId == 2
ChainSecondId == 3
ChainCatchId == 4

\* fetchData().then(...).then(...).catch(...)
ChainScript(flag) ==
    LET f == FetchData([Empty("chain") EXCEPT !.success = flag])
        t1 == Then(f, ChainFetchId, "logAndName", "thrower")
        t2 == Then(t1, ChainFirstId, "logValue", "thrower")
    IN  Catch(t2, ChainSecondId, "logValue")

\* (data) => { console.log(data); return `Tech-Code_`; }
LogAndName(m, j) == Settle(ConsoleLog(m, j.v), j.d, "fulfilled", Str("Tech-Code_"))

\* A then() without a rejection handler that takes the reason for a value.
PassOnFulfils(m, j) == Settle(m, j.d, "fulfilled", j.v)

\* then() without a rejection handler passes the reason on by throwing it;
\* catch() passes a fulfilment value on by returning it.
PassOn(m, j) == Settle(m, j.d, IF j.h = "identity" THEN "fulfilled" ELSE "rejected", j.v)

\* What step k's timer callback logs, given the data the step was called with.
StepSays(k, data) ==
    IF k = 1 THEN Str("Step 1 completed")
    ELSE Line(<<Str("Step " \o ToString(k) \o " completed with:"), data>>)

StepData(k) == Str("Data from step " \o ToString(k))

\* step1() / step2(data) / step3(data): a promise that a timer fulfils after one
\* second, the callback logging first. The promise's id is Len(promises) afterwards.
Step(m, k, data) ==
    LET m1 == NewPromise(m)
    IN  SetTimeoutSaying(m1, 1000, StepSays(k, data), Len(m1.promises), TRUE, StepData(k))

\* p.finally(f) is p.then with two handlers, each of which calls f and then passes
\* p's outcome on.
Finally(m, p) == Then(m, p, "finallyF", "finallyR")

\* The promises of the step chain, in the order the script creates them.
Step1Id == 1
Step2ThenId == 2
Step3ThenId == 3
FinalThenId == 4
StepsCatchId == 5
StepsFinallyId == 6

\* step1().then(step2).then(step3).then(log).catch(log).finally(log)
StepsScript ==
    LET s1 == Step(Empty("steps"), 1, Undefined)
        t1 == Then(s1, Step1Id, "callStep2", "thrower")
        t2 == Then(t1, Step2ThenId, "callStep3", "thrower")
        t3 == Then(t2, Step3ThenId, "logFinal", "thrower")
        c == Catch(t3, FinalThenId, "logEncountered")
    IN  Finally(c, StepsCatchId)

\* A handler that calls the next step without the result it was given.
CallStepWithoutResult(m, j) ==
    LET s == Step(m, IF j.h = "callStep2" THEN 2 ELSE 3, Undefined)
    IN  ResolveWith(s, j.d, PromiseRef(Len(s.promises)))

\* result => step2(result) / result => step3(result): the step's promise is what
\* the handler returns.
CallStep(m, j) ==
    LET s == Step(m, IF j.h = "callStep2" THEN 2 ELSE 3, j.v)
    IN  ResolveWith(s, j.d, PromiseRef(Len(s.promises)))

\* result => console.log("Final result:", result) and
\* error => console.error("Error encountered:", error)
LogWith(m, j) ==
    LET prefix == IF j.h = "logFinal" THEN "Final result:" ELSE "Error encountered:"
    IN  Settle(ConsoleLog(m, Line(<<Str(prefix), j.v>>)), j.d, "fulfilled", Undefined)

\* What the script's finally callback logs.
FinallyText(m) ==
    IF m.prog = "steps" THEN Str("All steps completed.")
    ELSE IF m.prog = "simple" THEN Str("Process complete.")
    ELSE Str("Promise has been settled (either fulfilled or rejected).")

\* A finally whose callback is called only when the promise was fulfilled.
OnFinallyFulfilledOnly(m, j) ==
    IF j.h = "finallyF"
    THEN LET w == NewPromise(ConsoleLog(m, FinallyText(m)))
             f == Settle(w, Len(w.promises), "fulfilled", Undefined)
             t == NewPromise(f)
             r == Register(t, Len(w.promises), "finallyValue", "thrower",
                           [t |-> 0, i |-> 0, v |-> j.v], Len(t.promises))
         IN  ResolveWith(r, j.d, PromiseRef(Len(t.promises)))
    ELSE Settle(m, j.d, "rejected", j.v)

\* The handlers of finally(f). f is called without argument; what it returns, here
\* undefined, is wrapped in a promise, and the handler returns that promise's
\* then(thunk), the thunk returning the value (finallyF) or throwing the reason
\* (finallyR) of the promise finally was called on. The promise that finally
\* returned is thus resolved with a promise and settles only some jobs later.
OnFinally(m, j) ==
    LET w == NewPromise(ConsoleLog(m, FinallyText(m)))
        f == Settle(w, Len(w.promises), "fulfilled", Undefined)
        t == NewPromise(f)
        r == Register(t, Len(w.promises),
                      IF j.h = "finallyF" THEN "finallyValue" ELSE "finallyThrow",
                      "thrower", [t |-> 0, i |-> 0, v |-> j.v], Len(t.promises))
    IN  ResolveWith(r, j.d, PromiseRef(Len(t.promises)))

\* The thunk of finally: () => value, or () => { throw reason }.
FinallyThunk(m, j) ==
    Settle(m, j.d, IF j.h = "finallyValue" THEN "fulfilled" ELSE "rejected", j.arg.v)

\* The readme's fetchData(): a promise that a timer settles after two seconds, as
\* the success flag says.
SimpleFetchData(m) ==
    LET m1 == NewPromise(m)
    IN  SetTimeout(m1, 2000, Len(m1.promises), m.success,
                   IF m.success THEN MemberValue ELSE MemberReason)

\* The promises of the readme's simple example, in the order it creates them.
SimpleFetchId == 1
SimpleThenId == 2
SimpleCatchId == 3
SimpleFinallyId == 4

\* fetchData().then(log).catch(console.error).finally(log)
SimpleScript(flag) ==
    LET f == SimpleFetchData([Empty("simple") EXCEPT !.success = flag])
        t == Then(f, SimpleFetchId, "logValue", "thrower")
        c == Catch(t, SimpleThenId, "logValue")
    IN  Finally(c, SimpleCatchId)

\* The promises of the myPromise snippets, in the order they are created.
MyPromiseId == 1
MyThenId == 2
MyFinallyId == 5

\* myPromise = new Promise(...), settled by its executor as the success flag says;
\* then myPromise.then(log).catch(log), myPromise.catch(log), myPromise.finally(log).
MyPromiseScript(flag) ==
    LET n == NewPromise([Empty("myPromise") EXCEPT !.success = flag])
        p == Settle(n, MyPromiseId, IF flag THEN "fulfilled" ELSE "rejected",
                    IF flag THEN Str("The operation was successful!")
                    ELSE Str("Something went wrong!"))
        t == Then(p, MyPromiseId, "logValue", "thrower")
        c == Catch(t, MyThenId, "logValue")
        k == Catch(c, MyPromiseId, "logValue")
    IN  Finally(k, MyPromiseId)

\* The delays the setTimeout example is run with; the example's own is 0.
CallbackDelays == {0, 1000, 2000}

\* console.log("Start"); setTimeout(() => console.log("Inside setTimeout"), delay);
\* console.log("End");
TimeoutScript(delay) ==
    LET l1 == ConsoleLog(Empty("timeout"), Str("Start"))
        t == SetTimeoutSaying(l1, delay, Str("Inside setTimeout"), 0, TRUE, Undefined)
    IN  ConsoleLog(t, Str("End"))

\* An async function is called: its promise is made and its body starts to run.
\* The call's number is Len(life) afterwards, its promise Len(promises).
Call(m) ==
    LET g == NewPromise(m)
    IN  [g EXCEPT !.life = Append(@, [id |-> Len(g.promises),
                                      trace |-> <<"Created", "Running">>,
                                      awaits |-> <<>>, seen |-> <<>>])]

\* History only: task i has come to state st.
Phase(m, i, st) == [m EXCEPT !.life[i].trace = Append(@, st)]

\* Task i runs on from where it was suspended: the await or yield expression it
\* was suspended at evaluates to v, or throws v.
Resume(m, i, v) == [Phase(m, i, "Running") EXCEPT !.life[i].seen = Append(@, v)]

\* The async function of job j returns v: its promise is fulfilled.
Return(m, j, v) == Phase(Settle(m, j.arg.t, "fulfilled", v), j.arg.i, "Completed")

\* The async function of job j throws e and catches nothing: its promise is rejected.
Throw(m, j, e) == Phase(Settle(m, j.arg.t, "rejected", e), j.arg.i, "Failed")

\* An await that registers the function's rest twice.
AwaitTwice(m, v, onF, onR, arg) ==
    IF v.k = "promise"
    THEN [Phase(Register(Register(m, v.n, onF, onR, arg, 0), v.n, onF, onR, arg, 0),
                arg.i, "Suspended") EXCEPT !.life[arg.i].awaits = Append(@, v.n)]
    ELSE LET w == NewPromise(m)
             f == Settle(w, Len(w.promises), "fulfilled", v)
         IN  [Phase(Register(Register(f, Len(w.promises), onF, onR, arg, 0),
                             Len(w.promises), onF, onR, arg, 0), arg.i, "Suspended")
                 EXCEPT !.life[arg.i].awaits = Append(@, Len(w.promises))]

\* await v: the function's rest is registered on v and the function is suspended;
\* a v that is no promise is wrapped in a promise fulfilled with it first.
Await(m, v, onF, onR, arg) ==
    IF v.k = "promise"
    THEN [Phase(Register(m, v.n, onF, onR, arg, 0), arg.i, "Suspended")
             EXCEPT !.life[arg.i].awaits = Append(@, v.n)]
    ELSE LET w == NewPromise(m)
             f == Settle(w, Len(w.promises), "fulfilled", v)
         IN  [Phase(Register(f, Len(w.promises), onF, onR, arg, 0), arg.i, "Suspended")
                 EXCEPT !.life[arg.i].awaits = Append(@, Len(w.promises))]

\* The promises of getBlogData(), in the order the call creates them.
BlogId == 1
PostId == 2
CommentId == 3
BlogAllId == 4

\* fetchPostData() / fetchCommentData(): a promise that a timer fulfils.
FetchFixed(m, delay, v) ==
    LET m1 == NewPromise(m)
    IN  SetTimeout(m1, delay, Len(m1.promises), TRUE, v)

\* getBlogData(), up to its await: the call logs, starts both fetches, hands them to
\* Promise.all and suspends on the result; the script then returns.
BlogScript ==
    LET g == Call(Empty("blog"))
        l == ConsoleLog(g, Str("Fetching blog data"))
        f1 == FetchFixed(l, 2000, Str("Post Data fetched"))
        f2 == FetchFixed(f1, 3000, Str("Comment data fetched."))
        a == PromiseAll(f2, <<PostId, CommentId>>)
    IN  Await(a, PromiseRef(Len(a.promises)), "blogResume", "blogCatch",
              [t |-> Len(g.promises), i |-> Len(g.life)])

\* getBlogData() from its await on: the try block's rest, or the catch block.
GetBlogDataResumed(m, j) ==
    LET o == Resume(m, j.arg.i, j.v)
    IN  IF j.h = "blogResume"
        THEN LET l1 == ConsoleLog(o, j.v.a[1])
                 l2 == ConsoleLog(l1, j.v.a[2])
                 l3 == ConsoleLog(l2, Str("fetch complete"))
             IN  Return(l3, j, Undefined)
        ELSE Return(ConsoleLog(o, Line(<<Str("Error fetching blog data"), j.v>>)),
                    j, Undefined)

\* The two requests of asyncFlow, and what the server may answer to each.
UserUrl == [path |-> "user", q |-> Undefined]

PostsUrl(id) == [path |-> "posts", q |-> id]

PostsOf(id) == Arr(<<Str("post of user " \o ToString(id.n))>>)

PageOf(i) == Arr(<<Str("item of page " \o ToString(i))>>)

\* A request that fails rejects fetch's promise with a TypeError; a body that is no
\* JSON rejects json()'s promise with a SyntaxError.
Responses(url) ==
    LET failed == [TypeError EXCEPT !.a = <<Str("fetch failed")>>]
        syntax == [k |-> "error", s |-> "SyntaxError", n |-> 0,
                   a |-> <<Str("Unexpected token '<', \"<html>\" is not valid JSON")>>]
    IN
        IF url.path = "items"
        THEN {[st |-> "fulfilled", v |-> PageOf(url.q.n)],
              [st |-> "rejected", v |-> failed]}
        ELSE IF url.path = "api"
        THEN {[st |-> "fulfilled", v |-> [k |-> "response", s |-> "api", n |-> 200, a |-> <<>>]],
              [st |-> "rejected", v |-> failed]}
        ELSE IF url.path = "body"
        THEN {[st |-> "fulfilled", v |-> Arr(<<Str("item")>>)],
              [st |-> "rejected", v |-> syntax]}
        ELSE IF url.path = "user"
        THEN {[st |-> "fulfilled", v |-> User(1)], [st |-> "fulfilled", v |-> User(2)],
              [st |-> "rejected", v |-> failed]}
        ELSE IF url.q.k = "number"
        THEN {[st |-> "fulfilled", v |-> PostsOf(url.q)], [st |-> "fulfilled", v |-> Arr(<<>>)],
              [st |-> "rejected", v |-> failed]}
        ELSE {[st |-> "fulfilled", v |-> Arr(<<>>)], [st |-> "rejected", v |-> failed]}

\* The one generator object a generator snippet makes is the first task of its run.
GenTask == 1

\* asyncFlow() / fetchPages(...): the call makes a generator object and runs nothing
\* of the body; a generator has no promise of its own.
NewGenerator == [id |-> 0, trace |-> <<"Created">>, awaits |-> <<>>, seen |-> <<>>]

\* The generator yields the promise of a new request and suspends.
YieldFetch(m, url, pc) ==
    LET f == Fetch(m, url)
    IN  [Phase(f, GenTask, "Suspended") EXCEPT
             !.gen.pc = pc,
             !.life[GenTask].awaits = Append(@, Len(f.promises)),
             !.ret = IterResult(PromiseRef(Len(f.promises)), FALSE)]

\* asyncGen.next(v): asyncFlow runs from where it is suspended to its next yield,
\* or to its end; the yield it was suspended at evaluates to v. ret is what next()
\* returns, or the error it throws.
GenNext(m, v) ==
    CASE m.gen.pc = "start" -> YieldFetch(Phase(m, GenTask, "Running"), UserUrl, "yield1")
      [] m.gen.pc = "yield1" ->
            LET m1 == [Resume(m, GenTask, v) EXCEPT !.gen.user = v]
            IN  IF v.k = "undefined"
                THEN [Phase(m1, GenTask, "Failed") EXCEPT !.gen.pc = "done",
                                                          !.ret = TypeError]
                ELSE YieldFetch(m1, PostsUrl(IdOf(v)), "yield2")
      [] m.gen.pc = "yield2" ->
            LET m1 == [Resume(m, GenTask, v) EXCEPT !.gen.posts = v]
            IN  [Phase(ConsoleLog(m1, v), GenTask, "Completed") EXCEPT
                     !.gen.pc = "done", !.ret = IterResult(Undefined, TRUE)]
      [] OTHER -> [m EXCEPT !.ret = IterResult(Undefined, TRUE)]

\* asyncGen = asyncFlow(); asyncGen.next().value.then(user => ...)
AsyncFlowScript ==
    LET g == [Empty("asyncFlow") EXCEPT !.gen.pc = "start", !.life = <<NewGenerator>>]
        n == GenNext(g, Undefined)
    IN  Then(n, n.ret.a[1].n, "flowUser", "thrower")

\* user => asyncGen.next(user).value.then(posts => ...): the promise that the inner
\* then() returns is what the handler returns.
FlowUser(m, j) ==
    LET n == GenNext(m, j.v)
    IN  IF n.ret.k = "error" THEN Settle(n, j.d, "rejected", n.ret)
        ELSE LET t == Then(n, n.ret.a[1].n, "flowPosts", "thrower")
             IN  ResolveWith(t, j.d, PromiseRef(Len(t.promises)))

\* posts => asyncGen.next(posts)
FlowPosts(m, j) ==
    LET n == GenNext(m, j.v)
    IN  ResolveWith(n, j.d, n.ret)

\* fetchPages('https://api.example.com/items', 3)
TotalPages == 3

\* `${url}?page=${i}`
PageUrl(i) == [path |-> "items", q |-> Num(i)]

\* `Page ${i}:`
PageLabel(i) == Str("Page " \o ToString(i) \o ":")

\* The loop of fetchPages at its test i <= totalPages: the next request is yielded,
\* or the generator is done.
PagesLoop(m) ==
    IF m.gen.i <= TotalPages THEN YieldFetch(m, PageUrl(m.gen.i), "yield")
    ELSE [Phase(m, GenTask, "Completed") EXCEPT !.gen.pc = "done",
                                                !.ret = IterResult(Undefined, TRUE)]

\* pageFetcher.next(v): fetchPages runs from where it is suspended to its next
\* yield, or to its end; the yield it was suspended at evaluates to v, which is
\* what page is set to and what is logged.
PagesNext(m, v) ==
    CASE m.gen.pc = "start" -> PagesLoop([Phase(m, GenTask, "Running") EXCEPT !.gen.i = 1])
      [] m.gen.pc = "yield" ->
            LET m1 == [Resume(m, GenTask, v) EXCEPT !.gen.page = v]
                l == ConsoleLog(m1, Line(<<PageLabel(m.gen.i), v>>))
            IN  PagesLoop([l EXCEPT !.gen.i = @ + 1])
      [] OTHER -> [m EXCEPT !.ret = IterResult(Undefined, TRUE)]

\* pageFetcher = fetchPages(...); pageFetcher.next().value.then(() => ...)
PagesScript ==
    LET g == [Empty("pages") EXCEPT !.gen = [pc |-> "start", i |-> 0, page |-> Undefined],
                                    !.life = <<NewGenerator>>]
        n == PagesNext(g, Undefined)
    IN  Then(n, n.ret.a[1].n, "pagesSecond", "thrower")

\* A driver that asks for the third page along with the second.
PagesSecondEager(m, j) ==
    LET n == PagesNext(PagesNext(m, Undefined), Undefined)
        t == Then(n, n.ret.a[1].n, "pagesThird", "thrower")
    IN  ResolveWith(t, j.d, PromiseRef(Len(t.promises)))

\* () => pageFetcher.next().value.then(() => ...): the outer callback; the promise
\* that the inner then() returns is what it returns.
PagesSecond(m, j) ==
    LET n == PagesNext(m, Undefined)
        t == Then(n, n.ret.a[1].n, "pagesThird", "thrower")
    IN  ResolveWith(t, j.d, PromiseRef(Len(t.promises)))

\* () => pageFetcher.next().value: the inner callback returns the third page's
\* promise.
PagesThird(m, j) ==
    LET n == PagesNext(m, Undefined)
    IN  ResolveWith(n, j.d, n.ret.a[1])

\* The arguments the function memoize returns is called with.
Args == {Str("X"), Str("1"), Num(1), Str("toString"), Str("__proto__")}

\* The names an empty object literal inherits from Object.prototype.
InheritedKeys == {"constructor", "hasOwnProperty", "isPrototypeOf",
                  "propertyIsEnumerable", "toLocaleString", "toString", "valueOf",
                  "__defineGetter__", "__defineSetter__", "__lookupGetter__",
                  "__lookupSetter__", "__proto__"}

\* The property key an argument is turned into when it indexes an object.
ToPropertyKey(x) == IF x.k = "number" THEN ToString(x.n) ELSE x.s

\* A lookup that never finds anything.
InCacheNever(c, key) == FALSE

\* x in cache: own and inherited properties count.
InCache(c, key) == key \in DOMAIN c \/ key \in InheritedKeys

\* cache[x]: an own property's value, else what the name gives on Object.prototype:
\* __proto__ is the prototype itself, every other name a method.
CacheGet(c, key) ==
    IF key \in DOMAIN c THEN c[key]
    ELSE IF key = "__proto__" THEN ObjectPrototype
    ELSE InheritedMethod(key)

\* A store that forgets.
CachePutNothing(c, key, v) == c

\* cache[x] = result: an own property is made or overwritten; an assignment to
\* __proto__ goes to the inherited setter and makes no own property.
CachePut(c, key, v) == IF key = "__proto__" THEN c ELSE (key :> v) @@ c

\* fetchUserData(x): a promise that a timer fulfils after three seconds with a new
\* object; the function declares no parameter, so x is ignored.
FetchUserData(m, x) ==
    LET m1 == NewPromise(m)
        p == Len(m1.promises)
        m2 == SetTimeout(m1, 3000, p, TRUE, UserData(Len(m.produced) + 1))
    IN  [m2 EXCEPT !.produced = Append(@, x), !.ret = PromiseRef(p)]

\* The number NaN.
NaN == [k |-> "number", s |-> "NaN", n |-> 0, a |-> <<>>]

\* The arguments square is called with: numbers, the same numbers as strings, and
\* strings that are no numbers, one of them a name every object inherits.
SquareArgs == {Num(i) : i \in 1..MaxArg} \cup {Str(ToString(i)) : i \in 1..MaxArg}
                  \cup {Str("X"), Str("toString")}

\* The number an operand of * is turned into: a string of digits is read as a
\* number, any other of the strings above gives NaN.
ToNumber(x) ==
    IF x.k = "number" THEN x
    ELSE IF \E i \in 1..MaxArg : ToString(i) = x.s
    THEN Num(CHOOSE i \in 1..MaxArg : ToString(i) = x.s)
    ELSE NaN

\* function(x) { return x * x; }
Square(x) ==
    LET n == ToNumber(x)
    IN  IF n = NaN THEN NaN ELSE Num(n.n * n.n)

\* fn(x): the wrapped function is the squaring function, fetchUserData, or
\* script.js's fetchData, which declares no parameter either.
Fn(m, x) ==
    IF m.prog = "square"
    THEN [m EXCEPT !.produced = Append(@, x), !.ret = Square(x)]
    ELSE IF m.prog = "memoData"
    THEN LET f == FetchData(m)
         IN  [f EXCEPT !.produced = Append(@, x), !.ret = PromiseRef(Len(f.promises))]
    ELSE FetchUserData(m, x)

\* A memoize that calls the wrapped function again when the stored promise failed.
MemoizedRetry(m, x) ==
    LET key == ToPropertyKey(x)
        failed == /\ key \in DOMAIN m.cache
                  /\ m.cache[key].k = "promise"
                  /\ m.promises[m.cache[key].n].state = "rejected"
    IN  IF InCache(m.cache, key) /\ ~failed
        THEN [ConsoleLog(m, Str("Fetching from cache")) EXCEPT
                  !.ret = CacheGet(m.cache, key)]
        ELSE LET f == Fn(ConsoleLog(m, Str("Calculating result")), x)
             IN  [f EXCEPT !.cache = CachePut(@, key, f.ret)]

\* The function memoize(fn) returns, called with x.
Memoized(m, x) ==
    LET key == ToPropertyKey(x)
    IN  IF InCache(m.cache, key)
        THEN [ConsoleLog(m, Str("Fetching from cache")) EXCEPT
                  !.ret = CacheGet(m.cache, key)]
        ELSE LET f == Fn(ConsoleLog(m, Str("Calculating result")), x)
             IN  [f EXCEPT !.cache = CachePut(@, key, f.ret)]

\* The state of the cache entry a lookup of key finds; "none" if it finds none.
EntryState(m, key) ==
    IF key \notin DOMAIN m.cache THEN "none"
    ELSE IF m.cache[key].k = "promise" THEN m.promises[m.cache[key].n].state
    ELSE "fulfilled"

\* The earlier calls of the memoized function whose promise is still pending.
InFlight(m) ==
    {a \in DOMAIN m.tasks :
        m.tasks[a].got.k = "promise" /\ m.promises[m.tasks[a].got.n].state = "pending"}

\* History only: the call op(arg) on closure obj returned out.
Called(m, obj, op, arg, out) ==
    [m EXCEPT !.ops = Append(@, [obj |-> obj, op |-> op, arg |-> arg, out |-> out]),
              !.ret = out]

\* console.log(square(x)): the memoized square is called and what it returns is
\* logged.
LogSquare(m, x) ==
    LET f == Memoized(m, x)
    IN  Called(ConsoleLog(f, f.ret), 0, "square", x, f.ret)

\* function counter() { let count = 0; return {...}; } and
\* function createButtonHandler(buttonId) { let buttonClickedCount = 0; ... }:
\* a call makes a new variable, which starts at 0.
Counter(m) == [m EXCEPT !.closures = Append(@, [kind |-> "counter", id |-> 0, n |-> 0])]

CreateButtonHandler(m, buttonId) ==
    [m EXCEPT !.closures = Append(@, [kind |-> "button", id |-> buttonId, n |-> 0])]

\* An increment that counts in one variable shared by all the counters.
IncrementShared(m, i) ==
    LET c == [m EXCEPT !.closures =
                  [k \in DOMAIN @ |-> IF @[k].kind = "counter"
                                      THEN [@[k] EXCEPT !.n = @ + 1] ELSE @[k]]]
    IN  Called(ConsoleLog(c, Num(c.closures[i].n)), i, "increment", Undefined, Undefined)

\* increment: function() { count++; console.log(count); }
Increment(m, i) ==
    LET c == [m EXCEPT !.closures[i].n = @ + 1]
    IN  Called(ConsoleLog(c, Num(c.closures[i].n)), i, "increment", Undefined, Undefined)

\* decrement: function() { count--; console.log(count); }
Decrement(m, i) ==
    LET c == [m EXCEPT !.closures[i].n = @ - 1]
    IN  Called(ConsoleLog(c, Num(c.closures[i].n)), i, "decrement", Undefined, Undefined)

\* getCount: function() { return count; }
GetCount(m, i) == Called(m, i, "getCount", Undefined, Num(m.closures[i].n))

\* `Button ${buttonId} clicked ${buttonClickedCount} times`
ClickedText(buttonId, n) ==
    Str("Button " \o ToString(buttonId) \o " clicked " \o ToString(n) \o " times")

\* The handler createButtonHandler returns.
ButtonHandler(m, i) ==
    LET c == [m EXCEPT !.closures[i].n = @ + 1]
    IN  Called(ConsoleLog(c, ClickedText(c.closures[i].id, c.closures[i].n)),
               i, "click", Undefined, Undefined)

\* Counters are made as myCounter is, handlers as button1Handler and
\* button2Handler are, with the ids 1, 2, ...
RECURSIVE ClosuresScript(_, _)
ClosuresScript(m, k) ==
    IF k > NumInstances THEN m
    ELSE ClosuresScript(CreateButtonHandler(Counter(m), k), k + 1)

\* The amounts an account is opened with, and those deposited and withdrawn.
InitialBalances == {0, 100}

Amounts == {0, 30, 50, 100}

\* new BankAccount(initialBalance)
BankAccount(m, initialBalance) ==
    [m EXCEPT !.closures = Append(@, [kind |-> "account", id |-> 0, n |-> initialBalance])]

DepositedText(amount, balance) ==
    Str("Deposited: " \o ToString(amount) \o ", New Balance: " \o ToString(balance))

WithdrewText(amount, balance) ==
    Str("Withdrew: " \o ToString(amount) \o ", New Balance: " \o ToString(balance))

\* this.deposit = function(amount) { balance += amount; console.log(...); }
Deposit(m, i, amount) ==
    LET c == [m EXCEPT !.closures[i].n = @ + amount]
    IN  Called(ConsoleLog(c, DepositedText(amount, c.closures[i].n)),
               i, "deposit", Num(amount), Undefined)

\* A withdraw that does not look at the balance.
WithdrawUnchecked(m, i, amount) ==
    LET c == [m EXCEPT !.closures[i].n = @ - amount]
    IN  Called(ConsoleLog(c, WithdrewText(amount, c.closures[i].n)),
               i, "withdraw", Num(amount), Undefined)

\* this.withdraw = function(amount) { if (balance >= amount) {...} else {...} }
Withdraw(m, i, amount) ==
    IF m.closures[i].n >= amount
    THEN LET c == [m EXCEPT !.closures[i].n = @ - amount]
         IN  Called(ConsoleLog(c, WithdrewText(amount, c.closures[i].n)),
                    i, "withdraw", Num(amount), Undefined)
    ELSE Called(ConsoleLog(m, Str("Insufficient funds")),
                i, "withdraw", Num(amount), Undefined)

\* this.getBalance = function() { return balance; }
GetBalance(m, i) == Called(m, i, "getBalance", Undefined, Num(m.closures[i].n))

\* The function memoize(fn) returns is called with x; what the lookup found and
\* what the call returned are kept with the call's history.
CallMemoizedWith(m, x) ==
    LET f == Memoized(m, x)
    IN  [f EXCEPT !.tasks = Append(@, [arg |-> x, key |-> ToPropertyKey(x),
                                       found |-> EntryState(m, ToPropertyKey(x)),
                                       during |-> InFlight(m), got |-> f.ret])]

\* A getUserData without await: the lines after the call are logged at once, with
\* the promise as user data.
GetUserDataNoAwait(m) ==
    LET g == Call(m)
        f == FetchUserData(ConsoleLog(g, Str("Fetching user data...")), Undefined)
        l == ConsoleLog(ConsoleLog(f, Str("User data fetched successfully")),
                        Line(<<Str("User data: "), f.ret>>))
    IN  Return(l, [arg |-> [t |-> Len(g.promises), i |-> Len(g.life)]], Undefined)

\* getUserData(), up to its await: the call logs, calls fetchUserData() and
\* suspends on the promise that returned.
GetUserData(m) ==
    LET g == Call(m)
        f == FetchUserData(ConsoleLog(g, Str("Fetching user data...")), Undefined)
    IN  Await(f, f.ret, "userResume", "userCatch",
              [t |-> Len(g.promises), i |-> Len(g.life)])

\* getUserData from its await on: the try block's rest, or the catch block.
GetUserDataResumed(m, j) ==
    LET o == Resume(m, j.arg.i, j.v)
    IN  IF j.h = "userResume"
        THEN LET l1 == ConsoleLog(o, Str("User data fetched successfully"))
                 l2 == ConsoleLog(l1, Line(<<Str("User data: "), j.v>>))
             IN  Return(l2, j, Undefined)
        ELSE Return(ConsoleLog(o, Line(<<Str("Error fetching data"), j.v>>)),
                    j, Undefined)

\* What fetchDataFromApi<i> resolves with, and after how many milliseconds.
ApiData(i) == Str("Data from API " \o ToString(i))

ApiDelay(i) == IF i = 1 THEN 1000 ELSE IF i = 2 THEN 2000 ELSE 1500

\* The promises of processTasks(): its own, those of the three calls it makes, and
\* Promise.all's.
ProcessTasksId == 1

Task(i) == 2 * i

TasksAllId == 8

\* async function fetchDataFromApi<i>() { return new Promise(...) }: the call's
\* promise is resolved with the promise the body returns, which a timer fulfils.
FetchDataFromApi(m, i) ==
    LET g == Call(m)
        n == NewPromise(g)
        t == SetTimeout(n, ApiDelay(i), Len(n.promises), TRUE, ApiData(i))
    IN  Phase(ResolveWith(t, Len(g.promises), PromiseRef(Len(n.promises))),
              Len(g.life), "Completed")

\* processTasks(), up to its await: the three calls are made, their promises are
\* handed to Promise.all, and the function suspends on the result.
ProcessTasks(m) ==
    LET g == Call(m)
        t == FetchDataFromApi(FetchDataFromApi(FetchDataFromApi(g, 1), 2), 3)
        a == PromiseAll(t, <<Task(1), Task(2), Task(3)>>)
    IN  Await(a, PromiseRef(Len(a.promises)), "tasksResume", "tasksThrow",
              [t |-> Len(g.promises), i |-> Len(g.life)])

\* processTasks from its await on: results is logged, or, had Promise.all's promise
\* been rejected, the function's promise is rejected, for it catches nothing.
ProcessTasksResumed(m, j) ==
    LET o == Resume(m, j.arg.i, j.v)
    IN  IF j.h = "tasksResume" THEN Return(ConsoleLog(o, j.v), j, Undefined)
        ELSE Throw(o, j, j.v)

\* A call of an async function that takes a list of ids; the list is kept with the
\* call's history.
CallWith(m, ids) ==
    LET g == NewPromise(m)
    IN  [g EXCEPT !.life = Append(@, [id |-> Len(g.promises),
                                      trace |-> <<"Created", "Running">>,
                                      awaits |-> <<>>, seen |-> <<>>, ids |-> ids])]

\* The lists of user ids the two loops are called with.
UserIds(n) == [i \in 1..n |-> Num(i)]

\* userIds.map(userId => fetchUserData(userId)): the calls are made in the ids'
\* order, one after the other.
RECURSIVE MapFetchUserData(_, _, _)
MapFetchUserData(m, ids, k) ==
    IF k > Len(ids) THEN m ELSE MapFetchUserData(FetchUserData(m, ids[k]), ids, k + 1)

\* A loop that calls fetchUserData for all the ids left and awaits the last call.
SequentialLoopUnawaited(m, arg) ==
    IF arg.k > Len(arg.ids) THEN Return(m, [arg |-> arg], Undefined)
    ELSE LET f == MapFetchUserData(m, arg.ids, arg.k)
         IN  Await(f, f.ret, "sequentialResume", "sequentialThrow",
                   [arg EXCEPT !.k = Len(arg.ids) + 1])

\* for (const userId of userIds) { await fetchUserData(userId); } from its k-th
\* round on: the function returns when the ids are used up.
SequentialLoop(m, arg) ==
    IF arg.k > Len(arg.ids) THEN Return(m, [arg |-> arg], Undefined)
    ELSE LET f == FetchUserData(m, arg.ids[arg.k])
         IN  Await(f, f.ret, "sequentialResume", "sequentialThrow",
                   [arg EXCEPT !.k = @ + 1])

\* fetchUserDataSequentially(userIds), up to its first await or its return.
FetchUserDataSequentially(m, ids) ==
    LET g == CallWith(m, ids)
    IN  SequentialLoop(g, [t |-> Len(g.promises), i |-> Len(g.life), k |-> 1, ids |-> ids])

\* fetchUserDataSequentially from an await on: the next round of the loop, or the
\* rejection of the function's promise, for the function catches nothing.
FetchUserDataSequentiallyResumed(m, j) ==
    LET o == Resume(m, j.arg.i, j.v)
    IN  IF j.h = "sequentialResume" THEN SequentialLoop(o, j.arg)
        ELSE Throw(o, j, j.v)

\* fetchUserDataConcurrently(userIds), up to its await.
FetchUserDataConcurrently(m, ids) ==
    LET g == CallWith(m, ids)
        G == Len(g.promises)
        f == MapFetchUserData(g, ids, 1)
        a == PromiseAll(f, [k \in 1..Len(ids) |-> G + k])
    IN  Await(a, PromiseRef(Len(a.promises)), "concurrentResume", "concurrentThrow",
              [t |-> G, i |-> Len(g.life), k |-> 0, ids |-> ids])

\* fetchUserDataConcurrently from its await on: users is set and the function
\* returns, or its promise is rejected.
FetchUserDataConcurrentlyResumed(m, j) ==
    LET o == Resume(m, j.arg.i, j.v)
    IN  IF j.h = "concurrentResume" THEN Return(o, j, Undefined)
        ELSE Throw(o, j, j.v)

\* The request of the async fetchData, and the reading of its response's body.
ApiUrl == [path |-> "api", q |-> Undefined]

BodyUrl == [path |-> "body", q |-> Undefined]

\* response.json(): a promise settled when the body has been read and parsed.
Json(m) ==
    LET m1 == NewPromise(m)
    IN  [m1 EXCEPT !.net = Append(@, [p |-> Len(m1.promises), url |-> BodyUrl])]

\* async function fetchData(), up to its first await.
AsyncFetchData(m) ==
    LET c == Call(m)
        f == Fetch(c, ApiUrl)
    IN  Await(f, PromiseRef(Len(f.promises)), "dataResponse", "dataThrow",
              [t |-> Len(c.promises), i |-> Len(c.life)])

\* fetchData from an await on: to the second await, to the return, or, the awaited
\* promise having been rejected, out of the function with the reason thrown.
AsyncFetchDataResumed(m, j) ==
    LET r == Resume(m, j.arg.i, j.v)
    IN  CASE j.h = "dataResponse" ->
               LET b == Json(r)
               IN  Await(b, PromiseRef(Len(b.promises)), "dataJson", "dataThrow", j.arg)
          [] j.h = "dataJson" -> Return(r, j, j.v)
          [] OTHER -> Throw(r, j, j.v)

\* The promises of the fetchData() script, in the order it creates them.
DataCallId == 1
DataThenId == 3
DataCatchId == 4

\* fetchData().then(data => console.log(data)).catch(error => console.error('Error:', error))
AsyncFetchScript ==
    LET a == AsyncFetchData(Empty("fetchJson"))
        t == Then(a, DataCallId, "logValue", "thrower")
    IN  Catch(t, DataThenId, "logError")

\* error => console.error('Error:', error)
LogError(m, j) ==
    Settle(ConsoleLog(m, Line(<<Str("Error:"), j.v>>)), j.d, "fulfilled", Undefined)

\* The request of part_000's getUserData.
UserApiUrl == [path |-> "api", q |-> Str("user")]

\* part_000's getUserData(), up to its first await: fetch(...) is awaited.
GetUserDataFromApi(m) ==
    LET c == Call(m)
        f == Fetch(c, UserApiUrl)
    IN  Await(f, PromiseRef(Len(f.promises)), "apiResponse", "apiCatch",
              [t |-> Len(c.promises), i |-> Len(c.life)])

\* part_000's getUserData from an await on: to the second await, to the end of the
\* try block, or, the awaited promise having been rejected, to the catch block.
GetUserDataFromApiResumed(m, j) ==
    LET r == Resume(m, j.arg.i, j.v)
    IN  CASE j.h = "apiResponse" ->
               LET b == Json(r)
               IN  Await(b, PromiseRef(Len(b.promises)), "apiJson", "apiCatch", j.arg)
          [] j.h = "apiJson" -> Return(ConsoleLog(r, j.v), j, Undefined)
          [] OTHER -> Return(ConsoleLog(r, Line(<<Str("Error fetching data:"), j.v>>)),
                             j, Undefined)

----------------------------------------------------------------------------
(* The event loop *)

\* An event loop that runs the head job and leaves it in the queue.
TakenLeft(m) ==
    [m EXCEPT !.ran = Append(@, [src |-> Head(m.jobs).src, seq |-> Head(m.jobs).seq,
                                 h |-> Head(m.jobs).h])]

\* The job at the head of the queue is taken off it and noted as run.
Taken(m) ==
    [m EXCEPT !.jobs = Tail(@),
              !.ran = Append(@, [src |-> Head(m.jobs).src, seq |-> Head(m.jobs).seq,
                                 h |-> Head(m.jobs).h])]

HeadIs(names) == jobs # <<>> /\ Head(jobs).h \in names

\* The event loop takes the soonest timer once the call stack and the job queue are
\* empty; its callback resolves or rejects the fetch's promise.
TimerFires ==
    /\ jobs = <<>>
    /\ timers # <<>>
    /\ LET t == Head(timers)
           m == [M EXCEPT !.timers = Tail(@), !.clock = t.due,
                          !.log = IF t.says = Nothing THEN @ ELSE Append(@, t.says)]
       IN  Commit(Settle(m, t.p, IF t.ok THEN "fulfilled" ELSE "rejected", t.v))

RunAllResolveElement ==
    /\ HeadIs({"allResolveElement"})
    /\ Commit(AllResolveElement(Taken(M), Head(jobs)))

RunAllReject ==
    /\ HeadIs({"allReject"})
    /\ Commit(AllReject(Taken(M), Head(jobs)))

RunSettledElement ==
    /\ HeadIs({"settledFulfilled", "settledRejected"})
    /\ Commit(SettledElement(Taken(M), Head(jobs),
                             IF Head(jobs).h = "settledFulfilled"
                             THEN "fulfilled" ELSE "rejected"))

RunRaceSettle ==
    /\ HeadIs({"raceResolve", "raceReject"})
    /\ Commit(RaceSettle(Taken(M), Head(jobs),
                         IF Head(jobs).h = "raceResolve"
                         THEN "fulfilled" ELSE "rejected"))

\* A handler of the form x => { console.log(x) }: it logs what it is given and
\* returns undefined, which fulfils the promise its then() or catch() returned.
RunLogValue ==
    /\ HeadIs({"logValue"})
    /\ LET j == Head(jobs)
       IN  Commit(Settle(ConsoleLog(Taken(M), j.v), j.d, "fulfilled", Undefined))

\* then() without a rejection handler passes the reason on; catch() passes a
\* fulfilment value on.
RunPassOn ==
    /\ HeadIs({"identity", "thrower"})
    /\ Commit(PassOn(Taken(M), Head(jobs)))

RunLogAndName ==
    /\ HeadIs({"logAndName"})
    /\ Commit(LogAndName(Taken(M), Head(jobs)))

RunLogError ==
    /\ HeadIs({"logError"})
    /\ Commit(LogError(Taken(M), Head(jobs)))

RunAsyncFetchData ==
    /\ HeadIs({"dataResponse", "dataJson", "dataThrow"})
    /\ Commit(AsyncFetchDataResumed(Taken(M), Head(jobs)))

RunCallStep ==
    /\ HeadIs({"callStep2", "callStep3"})
    /\ Commit(CallStep(Taken(M), Head(jobs)))

RunLogWith ==
    /\ HeadIs({"logFinal", "logEncountered"})
    /\ Commit(LogWith(Taken(M), Head(jobs)))

RunOnFinally ==
    /\ HeadIs({"finallyF", "finallyR"})
    /\ Commit(OnFinally(Taken(M), Head(jobs)))

RunFinallyThunk ==
    /\ HeadIs({"finallyValue", "finallyThrow"})
    /\ Commit(FinallyThunk(Taken(M), Head(jobs)))

RunGetBlogData ==
    /\ HeadIs({"blogResume", "blogCatch"})
    /\ Commit(GetBlogDataResumed(Taken(M), Head(jobs)))

\* The answer to a request in flight comes in, in a turn of its own.
NetworkResponds ==
    /\ jobs = <<>>
    /\ \E k \in DOMAIN net :
          \E r \in Responses(net[k].url) :
              LET m == [M EXCEPT !.net = SubSeq(@, 1, k - 1) \o SubSeq(@, k + 1, Len(@))]
              IN  Commit(Settle(m, net[k].p, r.st, r.v))

\* The job queued when a promise was resolved with another promise.
RunThenableJob ==
    /\ HeadIs({"thenableJob"})
    /\ LET j == Head(jobs)
       IN  Commit(Register(Taken(M), j.arg.i, "adoptResolve", "adoptReject",
                           [t |-> j.arg.t, i |-> 0], 0))

\* The promise it was resolved with has settled: the promise takes its outcome.
RunAdopt ==
    /\ HeadIs({"adoptResolve", "adoptReject"})
    /\ LET j == Head(jobs)
       IN  Commit(Settle(Taken(M), j.arg.t,
                         IF j.h = "adoptResolve" THEN "fulfilled" ELSE "rejected", j.v))

RunFlowUser ==
    /\ HeadIs({"flowUser"})
    /\ Commit(FlowUser(Taken(M), Head(jobs)))

RunPagesSecond ==
    /\ HeadIs({"pagesSecond"})
    /\ Commit(PagesSecond(Taken(M), Head(jobs)))

RunPagesThird ==
    /\ HeadIs({"pagesThird"})
    /\ Commit(PagesThird(Taken(M), Head(jobs)))

RunFlowPosts ==
    /\ HeadIs({"flowPosts"})
    /\ Commit(FlowPosts(Taken(M), Head(jobs)))

\* A caller calls getUserData() while nothing else runs.
CallGetUserData ==
    /\ prog = "user"
    /\ jobs = <<>>
    /\ Len(life) < MaxTasks
    /\ Commit(GetUserData(M))

\* A caller calls the function memoize(fn) returned, fn being a function that
\* returns a promise.
CallMemoized ==
    /\ prog \in {"memo", "memoData"}
    /\ jobs = <<>>
    /\ Len(tasks) < MaxTasks
    /\ \E x \in Args : Commit(CallMemoizedWith(M, x))

\* A caller logs square(x).
CallSquare ==
    /\ prog = "square"
    /\ Len(ops) < MaxCalls
    /\ \E x \in SquareArgs : Commit(LogSquare(M, x))

\* A caller calls a method of one of the counters.
CallIncrement ==
    /\ Len(ops) < MaxCalls
    /\ \E i \in DOMAIN closures : closures[i].kind = "counter" /\ Commit(Increment(M, i))

CallDecrement ==
    /\ Len(ops) < MaxCalls
    /\ \E i \in DOMAIN closures : closures[i].kind = "counter" /\ Commit(Decrement(M, i))

\* console.log(myCounter.getCount()): what getCount returns is logged.
CallGetCount ==
    /\ Len(ops) < MaxCalls
    /\ \E i \in DOMAIN closures :
          /\ closures[i].kind = "counter"
          /\ LET g == GetCount(M, i) IN Commit(ConsoleLog(g, g.ret))

\* A button is clicked: its handler is called.
Click ==
    /\ Len(ops) < MaxCalls
    /\ \E i \in DOMAIN closures : closures[i].kind = "button" /\ Commit(ButtonHandler(M, i))

\* A caller calls a method of the account.
CallDeposit ==
    /\ Len(ops) < MaxCalls
    /\ \E i \in DOMAIN closures, amount \in Amounts :
          closures[i].kind = "account" /\ Commit(Deposit(M, i, amount))

CallWithdraw ==
    /\ Len(ops) < MaxCalls
    /\ \E i \in DOMAIN closures, amount \in Amounts :
          closures[i].kind = "account" /\ Commit(Withdraw(M, i, amount))

\* console.log(myAccount.getBalance()): what getBalance returns is logged.
CallGetBalance ==
    /\ Len(ops) < MaxCalls
    /\ \E i \in DOMAIN closures :
          /\ closures[i].kind = "account"
          /\ LET g == GetBalance(M, i) IN Commit(ConsoleLog(g, g.ret))

RunFetchUserDataSequentially ==
    /\ HeadIs({"sequentialResume", "sequentialThrow"})
    /\ Commit(FetchUserDataSequentiallyResumed(Taken(M), Head(jobs)))

RunFetchUserDataConcurrently ==
    /\ HeadIs({"concurrentResume", "concurrentThrow"})
    /\ Commit(FetchUserDataConcurrentlyResumed(Taken(M), Head(jobs)))

RunGetUserData ==
    /\ HeadIs({"userResume", "userCatch"})
    /\ Commit(GetUserDataResumed(Taken(M), Head(jobs)))

RunGetUserDataFromApi ==
    /\ HeadIs({"apiResponse", "apiJson", "apiCatch"})
    /\ Commit(GetUserDataFromApiResumed(Taken(M), Head(jobs)))

RunProcessTasks ==
    /\ HeadIs({"tasksResume", "tasksThrow"})
    /\ Commit(ProcessTasksResumed(Taken(M), Head(jobs)))

\* The state a snippet's script leaves behind when it returns to the event loop,
\* for each of the snippets and each of its inputs.
Init ==
    \/ \E delays \in [1..NumMembers -> Delays], oks \in [1..NumMembers -> BOOLEAN] :
          Start(BatchScript(delays, oks))
    \/ Start(BlogScript)
    \/ Start(ProcessTasks(Empty("processTasks")))
    \/ Start(AsyncFlowScript)
    \/ Start(PagesScript)
    \/ \E flag \in BOOLEAN : Start(ChainScript(flag))
    \/ Start(StepsScript)
    \/ \E flag \in BOOLEAN : Start(SimpleScript(flag))
    \/ \E flag \in BOOLEAN : Start(MyPromiseScript(flag))
    \/ \E delay \in CallbackDelays : Start(TimeoutScript(delay))
    \/ Start(AsyncFetchScript)
    \/ Start(Empty("user"))
    \/ Start(GetUserDataFromApi(Empty("userApi")))
    \/ \E n \in 0..NumIds : Start(FetchUserDataSequentially(Empty("sequential"), UserIds(n)))
    \/ \E n \in 0..NumIds : Start(FetchUserDataConcurrently(Empty("concurrent"), UserIds(n)))
    \/ Start(Empty("memo"))
    \/ \E flag \in BOOLEAN : Start([Empty("memoData") EXCEPT !.success = flag])
    \/ Start(Empty("square"))
    \/ Start(ClosuresScript(Empty("closures"), 1))
    \/ \E initialBalance \in InitialBalances :
          Start(BankAccount(Empty("bank"), initialBalance))

Next ==
    \/ TimerFires
    \/ RunAllResolveElement
    \/ RunAllReject
    \/ RunSettledElement
    \/ RunRaceSettle
    \/ RunLogValue
    \/ RunPassOn
    \/ RunLogAndName
    \/ RunCallStep
    \/ RunLogWith
    \/ RunOnFinally
    \/ RunFinallyThunk
    \/ RunLogError
    \/ RunAsyncFetchData
    \/ RunGetBlogData
    \/ NetworkResponds
    \/ RunThenableJob
    \/ RunAdopt
    \/ RunFlowUser
    \/ RunFlowPosts
    \/ RunPagesSecond
    \/ RunPagesThird
    \/ CallGetUserData
    \/ CallMemoized
    \/ CallSquare
    \/ CallIncrement
    \/ CallDecrement
    \/ CallGetCount
    \/ Click
    \/ CallDeposit
    \/ CallWithdraw
    \/ CallGetBalance
    \/ RunGetUserData
    \/ RunGetUserDataFromApi
    \/ RunProcessTasks
    \/ RunFetchUserDataSequentially
    \/ RunFetchUserDataConcurrently

Spec == Init /\ [][Next]_vars

----------------------------------------------------------------------------
(* What the claims are stated with *)

MemberSet == 1..NumMembers

Quiet == jobs = <<>>

IsSettled(p) == promises[p].state # "pending"

\* The first promise of the set S to have settled; 0 if none has.
FirstSettled(S) ==
    LET hits == SelectSeq(order, LAMBDA p : p \in S)
    IN  IF hits = <<>> THEN 0 ELSE hits[1]

\* p's place among the settlements.
Place(p) == CHOOSE i \in DOMAIN order : order[i] = p

RejectedMembers == {i \in MemberSet : promises[i].state = "rejected"}

Increasing(q) == \A i, j \in DOMAIN q : i < j => q[i] < q[j]

\* The calls of the wrapped function that were made for a property key.
ProducedFor(key) == {i \in DOMAIN produced : ToPropertyKey(produced[i]) = key}

\* The lookups that found no property of their key, own or inherited.
Misses == {t \in DOMAIN tasks : tasks[t].found = "none" /\ tasks[t].key \notin InheritedKeys}

\* The state a task is in.
StateOf(i) == life[i].trace[Len(life[i].trace)]

\* The steps of Created -> Running -> (Suspended <-> Running)* -> Completed | Failed |
\* Cancelled.
Allowed(a, b) ==
    \/ a = "Created" /\ b = "Running"
    \/ a = "Running" /\ b \in {"Suspended", "Completed", "Failed", "Cancelled"}
    \/ a = "Suspended" /\ b \in {"Running", "Cancelled"}

\* The handlers that resume an async function: the function's rest behind an await.
Resumers == {"userResume", "userCatch", "dataResponse", "dataJson", "dataThrow",
             "sequentialResume", "sequentialThrow", "concurrentResume", "concurrentThrow",
             "apiResponse", "apiJson", "apiCatch", "tasksResume", "tasksThrow",
             "blogResume", "blogCatch"}

\* The handlers that resume the generator: each of them calls next().
GenResumers == {"flowUser", "flowPosts", "pagesSecond", "pagesThird"}

\* The task that handler h, registered with arg, resumes; 0 if it resumes none.
TaskOf(h, arg) ==
    IF h \in GenResumers THEN GenTask ELSE IF h \in Resumers THEN arg.i ELSE 0

\* The resumptions of task i that are waiting on a promise or queued as a job.
PendingResumptions(i) ==
    Cardinality({j \in DOMAIN jobs : TaskOf(jobs[j].h, jobs[j].arg) = i})
    + Cardinality({pr \in UNION {{<<p, k>> : k \in DOMAIN promises[p].reactions} :
                                     p \in DOMAIN promises} :
                      TaskOf(promises[pr[1]].reactions[pr[2]].onF,
                             promises[pr[1]].reactions[pr[2]].arg) = i})

\* The promises task i awaited, or yielded to its driver, in order, and what its
\* resumptions gave it.
Awaited(i) == life[i].awaits

Seen(i) == life[i].seen

\* Promise p was resolved with another promise and waits to take its outcome.
Adopting(p) ==
    \/ \E k \in DOMAIN jobs :
          /\ jobs[k].h \in {"thenableJob", "adoptResolve", "adoptReject"}
          /\ jobs[k].arg.t = p
    \/ \E q \in DOMAIN promises : \E k \in DOMAIN promises[q].reactions :
          /\ promises[q].reactions[k].onF = "adoptResolve"
          /\ promises[q].reactions[k].arg.t = p

\* What a cancel request to member i of the batch would leave behind: a
\* cancellation event on the console, or the member's timer cleared before it fired.
CancelRequested(i) ==
    \/ \E k \in DOMAIN log : log[k].k = "cancel" /\ log[k].n = i
    \/ ~IsSettled(i) /\ \A k \in DOMAIN timers : timers[k].p # i

\* How often task i was suspended.
Suspensions(i) ==
    Cardinality({k \in DOMAIN life[i].trace : life[i].trace[k] = "Suspended"})

\* The promises that the network or a timer settles.
Producers == {p \in DOMAIN promises : \A i \in DOMAIN life : life[i].id # p} \ {DataThenId, DataCatchId}

\* a is what b begins with.
IsPrefix(a, b) == Len(a) <= Len(b) /\ a = SubSeq(b, 1, Len(a))

\* Where a line stands in the console's output; 0 if it was not written.
IndexOf(v) == IF \E i \in DOMAIN log : log[i] = v
              THEN CHOOSE i \in DOMAIN log : log[i] = v ELSE 0

\* What the step chain writes when it runs through.
StepsOutput ==
    <<Str("Step 1 completed"),
      Line(<<Str("Step 2 completed with:"), StepData(1)>>),
      Line(<<Str("Step 3 completed with:"), StepData(2)>>),
      Line(<<Str("Final result:"), StepData(3)>>),
      Str("All steps completed.")>>

\* How often the first c calls called one of the methods named on closure i.
CallsBefore(c, i, names) ==
    Cardinality({k \in 1..(c - 1) : ops[k].obj = i /\ ops[k].op \in names})

TimesCalled(i, names) == CallsBefore(Len(ops) + 1, i, names)

\* Whether the callback given to finally has run.
FinallyRan == \E i \in DOMAIN ran : ran[i].h \in {"finallyF", "finallyR"}

\* How many jobs of the handlers named have run.
HandlersRun(names) == Cardinality({i \in DOMAIN ran : ran[i].h \in names})

\* How often a line was written to the console.
TimesLogged(v) == Cardinality({i \in DOMAIN log : log[i] = v})

----------------------------------------------------------------------------
(* The claims *)

\* C1: a promise changes state at most once. It is pending exactly until the first
\* call of its resolve or reject function; from then on, whatever further calls are
\* made, its state and its value are the ones that first call set.
C1_SettledOnce ==
    \A p \in DOMAIN promises :
        /\ promises[p].state \in {"pending", "fulfilled", "rejected"}
        /\ (promises[p].state = "pending") <=> (calls[p] = 0)
        /\ calls[p] > 0 => /\ promises[p].state = first[p].state
                           /\ promises[p].value = first[p].value

\* C1's case: the race promise was fulfilled and then had its reject called by a
\* member that failed.
C1_Witness ==
    /\ prog = "batch"
    /\ calls[RaceId] >= 2
    /\ promises[RaceId].state = "fulfilled"
    /\ RejectedMembers # {}

\* C2 as the spec states it: a call of the resolve or reject function of a promise
\* that is settled already changes nothing about the promise, and it is reported:
\* the step that makes the call writes a DoubleSettlement diagnostic to the console.
C2_DoubleSettlementReported ==
    [][\A p \in DOMAIN promises :
          (calls'[p] > calls[p] /\ calls[p] >= 1) =>
              /\ promises'[p] = promises[p]
              /\ \E k \in DOMAIN log' : k > Len(log) /\ log'[k].k = "DoubleSettlement"]_vars

\* C5: the memoization law. Over any sequence of lookups the wrapped function is
\* called at most once per key, namely by the one lookup that finds no entry; every
\* lookup that finds an entry, pending or fulfilled, returns the stored entry and
\* calls nothing.
C5_MemoizationLaw ==
    prog \in {"memo", "memoData"} =>
        /\ \A x \in Args : Cardinality(ProducedFor(ToPropertyKey(x))) <= 1
        /\ \A key \in DOMAIN cache : Cardinality(ProducedFor(key)) = 1
        /\ Len(produced) = Cardinality(Misses)
        /\ Len(produced) = TimesLogged(Str("Calculating result"))
        /\ \A t \in DOMAIN tasks :
              tasks[t].found # "none" =>
                  /\ tasks[t].key \in DOMAIN cache
                  /\ tasks[t].got = cache[tasks[t].key]
                  /\ \E a \in 1..(t - 1) :
                        /\ tasks[a].key = tasks[t].key
                        /\ tasks[a].found = "none"
                        /\ tasks[a].got = tasks[t].got

\* C5's case: one key was looked up three times: with no entry, with the entry
\* pending and with the entry fulfilled.
C5_Witness ==
    \E a, b, c \in DOMAIN tasks :
        /\ a < b /\ b < c
        /\ tasks[a].key = tasks[b].key /\ tasks[b].key = tasks[c].key
        /\ tasks[a].found = "none"
        /\ tasks[b].found = "pending"
        /\ tasks[c].found = "fulfilled"

\* C6: when the memoized function is called for a key while the promise an earlier
\* call for that key got is pending, the wrapped function has run once for that
\* key and both calls get the same promise; that promise settles once, when its
\* timer fires, so whoever waits on it is given one and the same value.
C6_SharedInFlight ==
    \A a, b \in DOMAIN tasks :
        (tasks[a].key = tasks[b].key /\ a \in tasks[b].during) =>
            /\ Cardinality(ProducedFor(tasks[b].key)) = 1
            /\ tasks[a].got.k = "promise"
            /\ tasks[b].got = tasks[a].got
            /\ tasks[b].found = "pending"
            /\ calls[tasks[a].got.n] <= 1
            /\ IsSettled(tasks[a].got.n) =>
                   promises[tasks[a].got.n].value = first[tasks[a].got.n].value
            /\ timers = <<>> => IsSettled(tasks[a].got.n)

\* C6's case: two calls, of which the second came while the first one's promise was
\* pending, hold one promise, which is fulfilled with the user data now.
C6_Witness ==
    \E a, b \in DOMAIN tasks :
        /\ tasks[a].key = tasks[b].key
        /\ a \in tasks[b].during
        /\ tasks[b].got = tasks[a].got
        /\ promises[tasks[a].got.n].state = "fulfilled"
        /\ promises[tasks[a].got.n].value.k = "object"

\* C12: every task, call of an async function and generator alike, goes Created ->
\* Running -> (Suspended <-> Running)* -> Completed | Failed: its states follow
\* these steps and no others, and nothing follows Completed or Failed. A call of
\* an async function has ended once its promise is settled; it ends Failed exactly
\* if its promise is rejected, and the promise of a call that ended Completed is
\* fulfilled, or takes the outcome of the promise the call returned. No task is
\* ever Cancelled, as nothing issues a cancel.
C12_TaskStateMachine ==
    \A i \in DOMAIN life :
        LET tr == life[i].trace
            p == life[i].id
        IN  /\ tr[1] = "Created"
            /\ \A k \in 1..(Len(tr) - 1) : Allowed(tr[k], tr[k + 1])
            /\ \A k \in DOMAIN tr : tr[k] # "Cancelled"
            /\ p # 0 =>
                  /\ IsSettled(p) => StateOf(i) \in {"Completed", "Failed"}
                  /\ StateOf(i) = "Failed" <=> promises[p].state = "rejected"
                  /\ StateOf(i) = "Completed" =>
                        (promises[p].state = "fulfilled" \/ Adopting(p))

\* C12's case: a call was suspended twice, resumed twice and then failed.
C12_Witness ==
    \E i \in DOMAIN life : Suspensions(i) = 2 /\ StateOf(i) = "Failed"

\* C13: a task has at most one resumption outstanding, waiting on a promise or
\* queued as a job, and none unless it is suspended; a suspended call of an async
\* function has exactly one. Every resumption has run to the next suspension or to
\* the end before any other job starts: no task is found Running between two jobs,
\* and none is resumed while Running.
C13_SingleResumption ==
    \A i \in DOMAIN life :
        /\ StateOf(i) \in {"Suspended", "Completed", "Failed"}
        /\ PendingResumptions(i) <= 1
        /\ StateOf(i) # "Suspended" => PendingResumptions(i) = 0
        /\ (StateOf(i) = "Suspended" /\ life[i].id # 0) => PendingResumptions(i) = 1
        /\ \A k \in 1..(Len(life[i].trace) - 1) :
              ~(life[i].trace[k] = "Running" /\ life[i].trace[k + 1] = "Running")

\* C13's case: a call that was resumed once is suspended for the second time.
C13_Witness ==
    \E i \in DOMAIN life : Suspensions(i) = 2 /\ StateOf(i) = "Suspended"

\* C14: the waiters of one settlement do not interleave. Each resumption is one job,
\* run from start to end, and the jobs of a promise's waiters run one right after
\* the other: no other job, not even one that a waiter queued by settling another
\* promise, runs between two of them. In the batch every combinator waiter that
\* has run has done all of its work: made its call or stored its element.
C14_NoInterleaving ==
    /\ \A p \in DOMAIN promises : \A i, l \in DOMAIN ran :
          (i < l /\ ran[i].src = p /\ ran[l].src = p) =>
              \A k \in i..l : ran[k].src = p
    /\ prog = "batch" =>
          /\ calls[RaceId] = HandlersRun({"raceResolve", "raceReject"})
          /\ NumMembers - agg[SettledId].remaining
                 = HandlersRun({"settledFulfilled", "settledRejected"})
          /\ NumMembers - agg[AllId].remaining = HandlersRun({"allResolveElement"})
          /\ calls[AllId] = HandlersRun({"allReject"})
                               + (IF agg[AllId].remaining = 0 THEN 1 ELSE 0)

\* C14's case: a member of the batch was rejected; the first of its three waiters
\* rejected Promise.all's promise, whose own waiter ran after the member's other two.
C14_Witness ==
    /\ prog = "batch"
    /\ \E p \in MemberSet :
          /\ FirstSettled(MemberSet) = p
          /\ promises[p].state = "rejected"
          /\ Len(SelectSeq(ran, LAMBDA e : e.src = p)) = 3
          /\ \E i \in DOMAIN ran : ran[i].src = AllId

\* C15: a rejection goes down a chain unchanged until it is caught. When script.js's
\* fetch fails, neither then callback runs, both promises the then calls returned
\* are rejected with the fetch's reason, and the catch handler logs that reason and
\* nothing else is logged. When an awaited promise is rejected in the async
\* fetchData, the call fails with that reason, and the caller's catch gets it.
C15_RejectionPassedOn ==
    /\ (prog = "chain" /\ ~success) =>
          /\ \A i \in DOMAIN ran :
                /\ ran[i].h # "logAndName"
                /\ ran[i].h = "logValue" => ran[i].src = ChainSecondId
          /\ \A p \in {ChainFetchId, ChainFirstId, ChainSecondId} :
                IsSettled(p) =>
                    promises[p] = [state |-> "rejected", value |-> ErrorFetching,
                                   reactions |-> <<>>]
          /\ \A i \in DOMAIN log : log[i] = ErrorFetching
          /\ IsSettled(ChainCatchId) => log = <<ErrorFetching>>
    /\ prog = "fetchJson" =>
          \A q \in Producers :
              promises[q].state = "rejected" =>
                  /\ \A i \in DOMAIN ran : ran[i].h \notin {"logValue", "dataJson"}
                  /\ \A p \in {DataCallId, DataThenId} :
                        IsSettled(p) =>
                            /\ promises[p].state = "rejected"
                            /\ promises[p].value = promises[q].value
                  /\ \A i \in DOMAIN log :
                        log[i] = Line(<<Str("Error:"), promises[q].value>>)
                  /\ IsSettled(DataCatchId) => Len(log) = 1
                  /\ Quiet => IsSettled(DataCatchId)

\* C15's case: script.js's fetch failed and the chain has run to its catch.
C15_Witness ==
    prog = "chain" /\ ~success /\ IsSettled(ChainCatchId)

\* C16: once the promise stored for a key is rejected, every later call for the key
\* returns that same rejected promise, with the reason of the one fetch that was
\* made, and does not call the wrapped function.
C16_RejectedStaysCached ==
    \A b \in DOMAIN tasks :
        tasks[b].found = "rejected" =>
            /\ tasks[b].got = cache[tasks[b].key]
            /\ promises[tasks[b].got.n].state = "rejected"
            /\ promises[tasks[b].got.n].value = ErrorFetching
            /\ Cardinality(ProducedFor(tasks[b].key)) = 1
            /\ \E a \in 1..(b - 1) :
                  /\ tasks[a].key = tasks[b].key
                  /\ tasks[a].found = "none"
                  /\ tasks[a].got = tasks[b].got

\* C16's case: a key was looked up twice after its fetch had failed.
C16_Witness ==
    \E a, b \in DOMAIN tasks :
        a < b /\ tasks[a].found = "rejected" /\ tasks[b].found = "rejected"

\* C20: a waiter that registers on a settled promise is queued as a job at once,
\* with the promise's outcome, and is not put among the promise's waiters; one that
\* registers on a pending promise is put at the end of the promise's waiters and
\* no job is queued for it before the promise settles. Every registration is in
\* exactly one place: waiting, queued, or run.
C20_AwaitOnSettledOrPending ==
    /\ \A p \in DOMAIN promises :
          /\ IsSettled(p) => promises[p].reactions = <<>>
          /\ ~IsSettled(p) =>
                /\ \A k \in DOMAIN jobs : jobs[k].src # p
                /\ \A k \in DOMAIN ran : ran[k].src # p
                /\ Increasing([k \in DOMAIN promises[p].reactions |->
                                   promises[p].reactions[k].seq])
          /\ \A k \in DOMAIN jobs : jobs[k].src = p => jobs[k].v = promises[p].value
    /\ \A n \in 1..nreg :
          Cardinality({k \in DOMAIN jobs : jobs[k].seq = n})
            + Cardinality({k \in DOMAIN ran : ran[k].seq = n})
            + Cardinality({pr \in UNION {{<<p, k>> : k \in DOMAIN promises[p].reactions} :
                                            p \in DOMAIN promises} :
                              promises[pr[1]].reactions[pr[2]].seq = n}) = 1

\* C20's case: myPromise was rejected by its executor before then, catch and
\* finally were called on it: their three handlers are queued, none has run.
C20_Witness ==
    /\ prog = "myPromise"
    /\ promises[MyPromiseId].state = "rejected"
    /\ Len(jobs) = 3
    /\ \A k \in DOMAIN jobs :
          jobs[k].src = MyPromiseId /\ jobs[k].v = Str("Something went wrong!")
    /\ ran = <<>>

\* C21: a setTimeout callback, also one with delay 0, runs after the script that set
\* it has ended: the example writes Start, End, Inside setTimeout, in this order.
C21_CallbackAfterScript ==
    prog = "timeout" =>
        /\ IsPrefix(<<Str("Start"), Str("End")>>, log)
        /\ IsPrefix(log, <<Str("Start"), Str("End"), Str("Inside setTimeout")>>)
        /\ Len(log) = 3 <=> timers = <<>>

\* C21's case: the callback was set with delay 0 and has run.
C21_Witness ==
    prog = "timeout" /\ clock = 0 /\ timers = <<>>

\* C22: in a chain each handler runs once the promise before it is fulfilled, and
\* gets what the step before it produced. script.js writes the fetched data and
\* then Tech-Code_; in the step chain step 2 starts when step 1's promise is
\* fulfilled and step 3 when step 2's is, each with the data of the step before,
\* and the last handler gets step 3's data.
C22_ChainPassesValues ==
    /\ (prog = "chain" /\ success) =>
          /\ IsPrefix(log, <<DataFetched, Str("Tech-Code_")>>)
          /\ log # <<>> => promises[ChainFetchId].state = "fulfilled"
          /\ Len(log) = 2 =>
                promises[ChainFirstId] = [state |-> "fulfilled", value |-> Str("Tech-Code_"),
                                          reactions |-> <<>>]
          /\ IsSettled(ChainCatchId) => Len(log) = 2
    /\ prog = "steps" =>
          /\ IsPrefix(log, StepsOutput)
          /\ Len(timers) <= 1
          /\ \A k \in {2, 3} :
                Len(produced) = 0 /\ Len(promises) >= StepsFinallyId + k - 1 =>
                    LET before == IF k = 2 THEN Step1Id ELSE StepsFinallyId + 1
                    IN  /\ promises[before].state = "fulfilled"
                        /\ promises[before].value = StepData(k - 1)
          /\ IsSettled(Step2ThenId) => promises[Step2ThenId].value = StepData(2)
          /\ IsSettled(Step3ThenId) => promises[Step3ThenId].value = StepData(3)
          /\ IsSettled(FinalThenId) => Len(log) >= 4

\* C22's case: the step chain has come to its last then handler.
C22_Witness ==
    prog = "steps" /\ IsSettled(FinalThenId)

\* C23: a finally handler runs exactly once, when the promise it was put on has
\* settled, fulfilled or rejected, and after the then or catch handler before it in
\* the chain: its line is written once, behind the line of that handler, and the
\* promise that finally returned takes, some jobs later, the outcome of the one
\* it was put on.
C23_FinallyRunsOnceAtEnd ==
    /\ prog = "steps" =>
          /\ TimesLogged(Str("All steps completed.")) = IF FinallyRan THEN 1 ELSE 0
          /\ FinallyRan =>
                /\ IsSettled(StepsCatchId)
                /\ log[Len(log)] = Str("All steps completed.")
                /\ log[Len(log) - 1].a[1] \in {Str("Final result:"), Str("Error encountered:")}
          /\ IsSettled(StepsFinallyId) =>
                /\ FinallyRan
                /\ promises[StepsFinallyId] = promises[StepsCatchId]
          /\ (Quiet /\ timers = <<>>) => IsSettled(StepsFinallyId)
    /\ prog = "simple" =>
          /\ TimesLogged(Str("Process complete.")) = IF FinallyRan THEN 1 ELSE 0
          /\ FinallyRan =>
                /\ IsSettled(SimpleCatchId)
                /\ log = <<promises[SimpleFetchId].value, Str("Process complete.")>>
          /\ IsSettled(SimpleFinallyId) =>
                /\ FinallyRan
                /\ promises[SimpleFinallyId] = promises[SimpleCatchId]
          /\ (Quiet /\ timers = <<>>) => IsSettled(SimpleFinallyId)
    /\ prog = "myPromise" =>
          /\ TimesLogged(FinallyText(M)) = IF FinallyRan THEN 1 ELSE 0
          /\ FinallyRan =>
                IndexOf(promises[MyPromiseId].value) \in 1..(IndexOf(FinallyText(M)) - 1)
          /\ IsSettled(MyFinallyId) =>
                /\ FinallyRan
                /\ promises[MyFinallyId] = promises[MyPromiseId]
          /\ Quiet => IsSettled(MyFinallyId)

\* C23's case: finally was put on a promise that was rejected; its callback has run
\* and the promise it returned is rejected with the same reason.
C23_Witness ==
    /\ prog = "myPromise"
    /\ ~success
    /\ promises[MyFinallyId].state = "rejected"
    /\ TimesLogged(FinallyText(M)) = 1

\* C24: await suspends getUserData until the awaited promise has settled. A call
\* logs 'Fetching user data...' and none of the lines behind the await, and leaves
\* the function suspended on fetchUserData's pending promise; 'User data fetched
\* successfully' and the user data are logged only by the resumption that the
\* fulfilled promise queued, with that promise's value. In part_000's getUserData,
\* whose awaited promises can be rejected, the resumption of a rejected promise
\* logs the catch block's line with the reason and nothing of the try block's
\* rest, and the call ends without failing.
C24_AwaitSuspends ==
    [][(prog \in {"user", "userApi"}) =>
          LET added == SubSeq(log', Len(log) + 1, Len(log'))
              done == Str("User data fetched successfully")
              called == Len(life') > Len(life)
              resumed == jobs # <<>> /\ Head(jobs).h \in {"userResume", "userCatch",
                                                         "apiResponse", "apiJson", "apiCatch"}
          IN  /\ IsPrefix(log, log')
              /\ called =>
                    /\ added = <<Str("Fetching user data...")>>
                    /\ LET call == life'[Len(life')]
                       IN  /\ call.trace[Len(call.trace)] = "Suspended"
                           /\ promises'[call.id].state = "pending"
                           /\ promises'[call.id + 1].state = "pending"
                           /\ Len(promises'[call.id + 1].reactions) = 1
              /\ (added # <<>> /\ ~called) => resumed
              /\ resumed =>
                    LET j == Head(jobs)
                        p == promises[j.src]
                        trace == life'[j.arg.i].trace
                    IN  /\ p.state = IF j.h \in {"userCatch", "apiCatch"}
                                     THEN "rejected" ELSE "fulfilled"
                        /\ j.v = p.value
                        /\ j.h = "userResume" =>
                              added = <<done, Line(<<Str("User data: "), p.value>>)>>
                        /\ j.h = "userCatch" =>
                              added = <<Line(<<Str("Error fetching data"), p.value>>)>>
                        /\ j.h = "apiResponse" =>
                              (added = <<>> /\ trace[Len(trace)] = "Suspended")
                        /\ j.h = "apiJson" => added = <<p.value>>
                        /\ j.h = "apiCatch" =>
                              /\ added = <<Line(<<Str("Error fetching data:"), p.value>>)>>
                              /\ trace[Len(trace)] = "Completed"
    ]_vars

\* C24's case: getUserData was called twice; the first call has been resumed by its
\* promise's fulfilment and has logged the user data, the second is suspended still.
C24_Witness ==
    /\ prog = "user"
    /\ Len(life) = 2
    /\ StateOf(1) = "Completed"
    /\ StateOf(2) = "Suspended"
    /\ log = <<Str("Fetching user data..."), Str("Fetching user data..."),
               Str("User data fetched successfully"),
               Line(<<Str("User data: "), UserData(1)>>)>>

\* C25: fetchUserDataSequentially has at most one fetchUserData call in flight
\* at any time: the call for the next id is made only when the promise of the call
\* before it has settled, and the calls are made in the ids' order.
\* fetchUserDataConcurrently has made the calls for all the ids when it suspends
\* for the first time, which it does in the call itself.
C25_SequentialVersusConcurrent ==
    LET made == Len(produced)
        inFlight == {p \in Producers : promises[p].state = "pending"}
    IN  /\ prog = "sequential" =>
              /\ Cardinality(inFlight) <= 1
              /\ Len(timers) <= 1
              /\ IsPrefix(produced, life[1].ids)
              /\ \A k \in 1..(made - 1) : promises[life[1].id + k].state = "fulfilled"
              /\ clock = (IF made = 0 THEN 0 ELSE 3000 * (made - Len(timers)))
              /\ Suspensions(1) = made
              /\ StateOf(1) = "Completed" => made = Len(life[1].ids)
        /\ prog = "concurrent" =>
              /\ Suspensions(1) = 1
              /\ produced = life[1].ids
              /\ \A k \in 1..made : dueAt[life[1].id + k] = 3000
              /\ clock = 0 => Len(timers) = made

\* C25's case: the sequential loop is in its last round with the calls before
\* settled, each three seconds after the one before.
C25_Witness ==
    /\ prog = "sequential"
    /\ Len(produced) = NumIds
    /\ clock = 3000 * (NumIds - 1)
    /\ Len(timers) = 1
    /\ StateOf(1) = "Suspended"

\* C26: driven by the readme's three nested next() calls, fetchPages asks for the
\* pages 1..totalPages in this order, one request at a time: page i+1 is asked for
\* only after the promise of page i is fulfilled, and never if it is rejected.
C26_PagesInOrder ==
    prog = "pages" =>
        /\ IsPrefix(requests, [i \in 1..TotalPages |-> PageUrl(i)])
        /\ Len(Awaited(GenTask)) = Len(requests)
        /\ Len(net) <= 1
        /\ \A i \in 1..(Len(requests) - 1) : promises[Awaited(GenTask)[i]].state = "fulfilled"
        /\ (Quiet /\ net = <<>>) =>
              \/ Len(requests) = TotalPages
              \/ promises[Awaited(GenTask)[Len(Awaited(GenTask))]].state = "rejected"

\* C26's case: all the pages were asked for and have come in.
C26_Witness ==
    /\ prog = "pages"
    /\ Len(requests) = TotalPages
    /\ \A i \in 1..TotalPages : promises[Awaited(GenTask)[i]].state = "fulfilled"
    /\ Quiet

\* C27 as the spec states it: when the driver is through and all three pages have
\* come in, 'Page i:' was logged with page i's JSON for i = 1, 2, 3, each yield
\* having evaluated to what its promise was fulfilled with, and the generator is
\* done. The code's driver sends nothing into the generator and calls next() three
\* times only.
C27_LogsEveryPage ==
    (/\ prog = "pages"
     /\ Quiet /\ net = <<>>
     /\ Len(requests) = TotalPages
     /\ \A i \in 1..TotalPages : promises[Awaited(GenTask)[i]].state = "fulfilled") =>
        /\ log = [i \in 1..TotalPages |-> Line(<<PageLabel(i), PageOf(i)>>)]
        /\ Seen(GenTask) = [i \in 1..TotalPages |-> promises[Awaited(GenTask)[i]].value]
        /\ gen.pc = "done"

\* C28 as the spec states it: whatever was called before, the memoized square
\* returns for x what the squaring function returns for x, also when x differs from
\* an earlier argument in type only or names a property every object inherits.
C28_MemoizedEqualsFn ==
    prog = "square" =>
        \A c \in DOMAIN ops : ops[c].out = Square(ops[c].arg)

\* C29: every closure has a variable of its own. After any calls on the counters
\* and the button handlers, in any order, a counter's count is the number of its
\* own increments less the number of its own decrements and a handler's count the
\* number of its own clicks: a call on one closure changes no other closure's
\* variable. getCount returns the count, which the caller logs, and the handler
\* logs its count with its own id.
C29_PrivateCounts ==
    prog = "closures" =>
        /\ \A i \in DOMAIN closures :
              closures[i].n = TimesCalled(i, {"increment", "click"})
                                - TimesCalled(i, {"decrement"})
        /\ \A c \in DOMAIN ops :
              /\ ops[c].obj \in DOMAIN closures
              /\ ops[c].op = "getCount" =>
                    ops[c].out = Num(CallsBefore(c, ops[c].obj, {"increment"})
                                       - CallsBefore(c, ops[c].obj, {"decrement"}))
        /\ ops # <<>> =>
              LET c == ops[Len(ops)]
                  own == closures[c.obj]
              IN  /\ c.op \in {"increment", "decrement"} => log[Len(log)] = Num(own.n)
                  /\ c.op = "getCount" => (c.out = Num(own.n) /\ log[Len(log)] = c.out)
                  /\ c.op = "click" => log[Len(log)] = ClickedText(own.id, own.n)

\* C29's case: one counter was incremented twice and another decremented, and none
\* of the two shows the other's calls.
C29_Witness ==
    /\ prog = "closures"
    /\ \E i, k \in DOMAIN closures :
          /\ closures[i].kind = "counter" /\ closures[k].kind = "counter"
          /\ closures[i].n = 2
          /\ closures[k].n = -1

\* C30: an account opened with a balance that is not negative never has a negative
\* balance, whatever amounts that are not negative are deposited and withdrawn.
\* withdraw(amount) on a balance less than the amount logs 'Insufficient funds' and
\* leaves the balance as it is; otherwise it takes exactly the amount off. deposit
\* adds exactly the amount. getBalance returns the balance, which the caller logs,
\* and changes nothing.
C30_BalanceNeverNegative ==
    /\ [](prog = "bank" => closures[1].n >= 0)
    /\ [][(prog = "bank") =>
            LET before == closures[1].n
                after == closures'[1].n
                c == ops'[Len(ops')]
                amount == c.arg.n
                said == log'[Len(log')]
            IN  /\ Len(ops') = Len(ops) + 1
                /\ c.op = "withdraw" =>
                      /\ Len(log') = Len(log) + 1
                      /\ IF before < amount
                         THEN after = before /\ said = Str("Insufficient funds")
                         ELSE after = before - amount
                                /\ said = WithdrewText(amount, before - amount)
                /\ c.op = "deposit" =>
                      /\ after = before + amount
                      /\ Len(log') = Len(log) + 1
                      /\ said = DepositedText(amount, before + amount)
                /\ c.op = "getBalance" =>
                      /\ after = before
                      /\ c.out = Num(before)
                      /\ log' = Append(log, Num(before))
       ]_vars

\* C30's case: a withdrawal was refused for lack of funds after an earlier one went
\* through.
C30_Witness ==
    /\ prog = "bank"
    /\ \E a, b \in DOMAIN ops :
          /\ a < b
          /\ ops[a].op = "withdraw" /\ ops[b].op = "withdraw"
          /\ ops[a].arg.n > 0
          /\ log[a].s # "Insufficient funds"
          /\ log[b] = Str("Insufficient funds")

\* C7 as the spec states it: the race settles with the value or failure of the
\* member that settles first, in the turn in which that member settles, and every
\* other member is sent a cancel request: once the race is settled, each member
\* still pending has received one. A member may still settle afterwards.
C7_RaceCancelsLosers ==
    prog = "batch" =>
        LET w == FirstSettled(MemberSet)
        IN  /\ IsSettled(RaceId) => /\ w # 0
                                    /\ promises[RaceId].state = promises[w].state
                                    /\ promises[RaceId].value = promises[w].value
            /\ (w # 0 /\ Quiet) => IsSettled(RaceId)
            /\ IsSettled(RaceId) =>
                  \A i \in MemberSet \ {w} : ~IsSettled(i) => CancelRequested(i)

\* C8 as the spec states it: Promise.all fails in the turn in which the first
\* member rejects, with a BatchAggregateFailure that refers to that member's
\* reason, and no later settlement of another member changes that.
C8_AllFailsWithAggregate ==
    prog = "batch" =>
        LET r == FirstSettled(RejectedMembers)
        IN  /\ (r # 0 /\ Quiet) => promises[AllId].state = "rejected"
            /\ promises[AllId].state = "fulfilled" => r = 0
            /\ promises[AllId].state = "rejected" =>
                  /\ r # 0
                  /\ promises[AllId].value.k = "BatchAggregateFailure"
                  /\ \E k \in DOMAIN promises[AllId].value.a :
                        promises[AllId].value.a[k] = promises[r].value

\* C4 as the spec states it: for every task, generator or call of an async
\* function, what its k-th resumption gives it is what the k-th promise it awaited,
\* or yielded to its driver, was settled with. In asyncFlow, user is the user
\* request's value, the posts request is made for that user's id, and posts, which
\* is logged, is the posts request's value.
C4_ResumedWithAwaitedValues ==
    /\ \A i \in DOMAIN life :
          /\ Len(Seen(i)) <= Len(Awaited(i))
          /\ \A k \in DOMAIN Seen(i) :
                /\ IsSettled(Awaited(i)[k])
                /\ Seen(i)[k] = promises[Awaited(i)[k]].value
    /\ (prog = "asyncFlow" /\ gen.pc \in {"yield2", "done"}) =>
          /\ gen.user = promises[Awaited(GenTask)[1]].value
          /\ requests = <<UserUrl, PostsUrl(IdOf(promises[Awaited(GenTask)[1]].value))>>
    /\ (prog = "asyncFlow" /\ gen.pc = "done") =>
          /\ gen.posts = promises[Awaited(GenTask)[2]].value
          /\ log = <<promises[Awaited(GenTask)[2]].value>>

\* C9: Promise.all is fulfilled only once every member is, in the turn in which the
\* last one fulfils, and its result holds each member's value at that member's
\* index, whatever order the members settled in. In getBlogData, 'fetch complete'
\* is logged only after both fetches fulfilled, postData is the post fetch's value
\* and commentData the comment fetch's. processTasks logs the three APIs' data in
\* the order of the calls, though the third call's promise settles before the
\* second's.
C9_AllKeepsMemberOrder ==
    /\ prog = "batch" =>
          /\ promises[AllId].state = "fulfilled" =>
                /\ \A i \in MemberSet : promises[i].state = "fulfilled"
                /\ promises[AllId].value = Arr([i \in MemberSet |-> promises[i].value])
          /\ ((\A i \in MemberSet : promises[i].state = "fulfilled") /\ Quiet)
                => promises[AllId].state = "fulfilled"
    /\ prog = "blog" =>
          /\ (\E i \in DOMAIN log : log[i] = Str("fetch complete")) =>
                /\ promises[PostId].state = "fulfilled"
                /\ promises[CommentId].state = "fulfilled"
                /\ log = <<Str("Fetching blog data"), promises[PostId].value,
                           promises[CommentId].value, Str("fetch complete")>>
          /\ (promises[CommentId].state = "fulfilled" /\ Quiet)
                => log[Len(log)] = Str("fetch complete")
    /\ prog = "processTasks" =>
          /\ promises[TasksAllId].state = "fulfilled" =>
                /\ \A i \in 1..3 :
                      promises[Task(i)] = [state |-> "fulfilled", value |-> ApiData(i),
                                           reactions |-> <<>>]
                /\ promises[TasksAllId].value = Arr([i \in 1..3 |-> ApiData(i)])
          /\ log # <<>> =>
                /\ promises[TasksAllId].state = "fulfilled"
                /\ log = <<Arr([i \in 1..3 |-> ApiData(i)])>>
          /\ (Quiet /\ timers = <<>>) => log # <<>>

\* C9's case: processTasks has logged its results; the third call's promise was
\* fulfilled before the second's.
C9_Witness ==
    /\ prog = "processTasks"
    /\ log # <<>>
    /\ Place(Task(3)) < Place(Task(2))

\* C10: Promise.allSettled never rejects. It is fulfilled in the turn in which the
\* last member settles, not before, and its result holds, at each member's index,
\* that member's outcome: fulfilled with its value or rejected with its reason.
C10_SettledNeverFails ==
    prog = "batch" =>
        /\ promises[SettledId].state # "rejected"
        /\ promises[SettledId].state = "fulfilled" =>
              /\ \A i \in MemberSet : IsSettled(i)
              /\ promises[SettledId].value =
                    Arr([i \in MemberSet |->
                            Outcome(promises[i].state, promises[i].value)])
        /\ ((\A i \in MemberSet : IsSettled(i)) /\ Quiet)
              => promises[SettledId].state = "fulfilled"

\* C10's case: the batch completed over members of which one failed and one did not.
C10_Witness ==
    /\ prog = "batch"
    /\ promises[SettledId].state = "fulfilled"
    /\ RejectedMembers # {}
    /\ RejectedMembers # MemberSet

====
